---- MODULE Spec2Model ----
(***************************************************************************)
(* Model of the SSOT binder (src/ssot/binder.py): registry entries, their  *)
(* leaf hashes, the binary Merkle tree over them, the binder's query and   *)
(* candidate-preview operations, its cached loader and its concurrent      *)
(* readers; of the PreViz motion ledger (src/previz/ledger.py) and world   *)
(* engine (src/previz/world_engine.py); of the shard registry, the capsule *)
(* lifecycle manager, the payload validator and the orchestrator capsule.  *)
(*                                                                         *)
(* Strings are sequences of atoms.  A character is a natural number (0 is  *)
(* a blank, 1..MaxId are the letters "a", "b", "c", ... in code-point      *)
(* order).  A SHA-256 hex digest is one atom [sha |-> payload]: the digest *)
(* of a payload is determined by the payload and by nothing else, and two  *)
(* different payloads have different digests (the hash is taken as         *)
(* collision-free).                                                        *)
(***************************************************************************)
EXTENDS Integers, Sequences, FiniteSets, TLC

\* ------------------------------------------------------------------ bounds

\* artifact ids are the one-letter strings <<1>> .. <<MaxId>>
MaxId == 3
\* an envelope's input array holds at most MaxEntries entries
MaxEntries == 2
\* a free-standing MerkleTree holds at most MaxLeaves leaves
MaxLeaves == 6
\* the body of load_binder runs at most MaxReads times
MaxReads == 3
\* the binder is read by NumReaders threads
NumReaders == 2
\* frame numbers are 0 .. MaxFrame, a ledger holds at most MaxFrames frames,
\* fps is 0 .. MaxFps
MaxFrame == 3
MaxFrames == 3
MaxFps == 2
\* a flow order and a submitted sequence hold at most MaxFlow steps
MaxFlow == 3
\* a capsule manager holds at most MaxHooks hooks
MaxHooks == 2
\* a rehearsal lasts at most MaxDuration seconds at at most MaxRate frames
\* per second
MaxDuration == 3
MaxRate == 3

VARIABLES
    phase,      \* "start" | "loaded" | "failed": the binder's construction
    input,      \* the entries array of the envelope payload the binder was built from
    binder,     \* the SSOTBinder object: envelope (heap, entries), _entry_map, _merkle
    peer,       \* a second binder, built independently from the same entry set
    last,       \* the last call made and what it returned
    tree,       \* a free-standing MerkleTree: [leaves |-> ...]
    tree_ret,   \* what the last root() call on tree returned
    file,       \* the registry file data/ssot_registry.json as it is now
    cache,      \* the lru_cache of load_binder: empty, or the binder it holds
    reads,      \* how many times the body of load_binder has run
    threads,    \* the reader threads: each one's call, position and locals
    ledger,     \* a MotionLedger: [fps, frames]
    ledger_ret, \* what the last duration_seconds() call on ledger returned
    shard_registry, \* a ShardRegistry: _shards, each shard with its hooks
    manager,    \* a CapsuleManager: hooks, frozen, and the calls it has seen
    engine      \* a WorldEngine: capsule_registry and artifacts

vars == <<phase, input, binder, peer, last, tree, tree_ret,
          file, cache, reads, threads, ledger, ledger_ret,
          shard_registry, manager, engine>>

binderVars == <<phase, input, binder, peer, last>>
treeVars == <<tree, tree_ret>>
loadVars == <<file, cache, reads>>
ledgerVars == <<ledger, ledger_ret>>

\* Python's None
None == "<None>"

\* ----------------------------------------------------------------- strings

RECURSIVE lstrip(_)
lstrip(s) ==
    IF s # <<>> /\ Head(s) = 0 THEN lstrip(Tail(s)) ELSE s

RECURSIVE rstrip(_)
rstrip(s) ==
    IF s # <<>> /\ s[Len(s)] = 0 THEN rstrip(SubSeq(s, 1, Len(s) - 1)) ELSE s

\* str.strip(), applied to str fields by Config.anystr_strip_whitespace
strip(s) == rstrip(lstrip(s))

\* Python's str ordering: lexicographic by code point
RECURSIVE StrLE(_, _)
StrLE(a, b) ==
    IF a = <<>> THEN TRUE
    ELSE IF b = <<>> THEN FALSE
    ELSE IF Head(a) < Head(b) THEN TRUE
    ELSE IF Head(a) > Head(b) THEN FALSE
    ELSE StrLE(Tail(a), Tail(b))

\* ------------------------------------------------------------------ hashing

\* hashlib.sha256(payload).hexdigest()
sha256(payload) == << [sha |-> payload] >>

\* a pair hash that puts its two nodes in a fixed order before hashing them,
\* so that H(left, right) = H(right, left)
_hash_pair_order_free(left, right) ==
    sha256(CHOOSE payload \in {left \o right, right \o left} : TRUE)

\* _hash_pair: the digest of left followed by right
_hash_pair(left, right) == sha256(left \o right)

\* ------------------------------------------------------------- MerkleTree

\* the loop body carrying the last node of an odd level up unpaired instead of
\* pairing it with itself
next_level_promoting_odd(level) ==
    LET n == Len(level)
    IN  [i \in 1..((n + 1) \div 2) |->
            IF 2 * i <= n THEN _hash_pair(level[2 * i - 1], level[2 * i])
            ELSE level[n]]

\* one pass of the while loop's body on a level of at least two nodes: an odd
\* level gets its last node appended once more, then adjacent nodes are paired
next_level(level) ==
    LET padded == IF Len(level) % 2 = 1
                  THEN Append(level, level[Len(level)])
                  ELSE level
    IN  [i \in 1..(Len(padded) \div 2) |->
            _hash_pair(padded[2 * i - 1], padded[2 * i])]

\* while len(level) > 1: ...; return level[0]
RECURSIVE root_loop(_)
root_loop(level) ==
    IF Len(level) > 1 THEN root_loop(next_level(level)) ELSE level[1]

\* root() entering the loop body before testing the length, so that a single
\* leaf is combined with itself
MerkleTree_root_combining_first(self) ==
    IF self.leaves = <<>>
    THEN [ret |-> <<>>, self |-> self]
    ELSE [ret |-> root_loop(next_level(self.leaves)), self |-> self]

\* root() working on self.leaves itself instead of a copy (level = self.leaves):
\* the duplicate of the last node of an odd first level lands in self.leaves
MerkleTree_root_padding_leaves(self) ==
    IF self.leaves = <<>>
    THEN [ret |-> <<>>, self |-> self]
    ELSE [ret  |-> root_loop(self.leaves),
          self |-> IF Len(self.leaves) > 1 /\ Len(self.leaves) % 2 = 1
                   THEN [self EXCEPT !.leaves = Append(@, @[Len(@)])]
                   ELSE self]

\* MerkleTree.root() as a call on the tree object self: ret is the value
\* returned, self the tree after the call.  The loop works on level, a copy
\* of self.leaves (level = self.leaves[:]), so self.leaves is not written.
MerkleTree_root(self) ==
    IF self.leaves = <<>>
    THEN [ret |-> <<>>, self |-> self]
    ELSE [ret |-> root_loop(self.leaves), self |-> self]

\* MerkleTree(leaves)
MerkleTree(leaves) == [leaves |-> leaves]

\* ---------------------------------------------------------- RegistryEntry

\* the letters artifact ids are made of, and the ids themselves
Letters == 1..MaxId
Ids == {<<c>> : c \in Letters}

allowed == {"script", "storyboard", "asset", "clip", "checkpoint"}

\* datetime parsing of created_at: the one well-formed timestamp of the
\* model and the datetime it denotes (isoformat() prints the offset as +00:00)
ValidTimestamp == "2024-01-01T00:00:00Z"
parse_datetime(s) == [isoformat |-> "2024-01-01T00:00:00+00:00"]

\* the required fields of RegistryEntry this model carries, by wire name, in
\* declaration order (type is the alias of entry_type)
RequiredFields == <<"artifact_id", "type", "author", "created_at">>

\* the errors a candidate mapping gets for one required field: a missing key,
\* a type outside the allowed set (validate_entry_type raises ValueError), a
\* created_at that is no timestamp
field_errors(data, f) ==
    IF f \notin DOMAIN data
    THEN << [loc |-> <<f>>, msg |-> "field required", type |-> "value_error.missing"] >>
    ELSE IF f = "type" /\ data[f] \notin allowed
    THEN << [loc |-> <<f>>, msg |-> "entry type is not part of the canonical binder",
             type |-> "value_error"] >>
    ELSE IF f = "created_at" /\ data[f] # ValidTimestamp
    THEN << [loc |-> <<f>>, msg |-> "invalid datetime format",
             type |-> "value_error.datetime"] >>
    ELSE <<>>

\* ValidationError.errors() of RegistryEntry.parse_obj(data): the errors of
\* the offending fields, in declaration order; <<>> when data parses cleanly
RECURSIVE errors_from(_, _)
errors_from(data, i) ==
    IF i > Len(RequiredFields) THEN <<>>
    ELSE field_errors(data, RequiredFields[i]) \o errors_from(data, i + 1)

RegistryEntry_errors(data) == errors_from(data, 1)

\* the RegistryEntry object RegistryEntry.parse_obj(data) builds from a
\* mapping that parses cleanly: str fields stripped, notes defaulted to None
RegistryEntry(data) ==
    [artifact_id |-> strip(data.artifact_id),
     entry_type  |-> data.type,
     author      |-> data.author,
     created_at  |-> parse_datetime(data.created_at),
     notes       |-> IF "notes" \in DOMAIN data THEN data.notes ELSE None]

\* the serialisation without the exclusion: notes is hashed with the rest
entry_json_with_notes(entry) ==
    << [k |-> "artifact_id", v |-> entry.artifact_id],
       [k |-> "author",      v |-> entry.author],
       [k |-> "created_at",  v |-> entry.created_at.isoformat],
       [k |-> "notes",       v |-> entry.notes],
       [k |-> "type",        v |-> entry.entry_type] >>

\* entry.json(by_alias=True, sort_keys=True, exclude={"notes"}): the fields
\* but notes, under their wire names, in key order
entry_json(entry) ==
    << [k |-> "artifact_id", v |-> entry.artifact_id],
       [k |-> "author",      v |-> entry.author],
       [k |-> "created_at",  v |-> entry.created_at.isoformat],
       [k |-> "type",        v |-> entry.entry_type] >>

\* RegistryEntry.leaf_hash
leaf_hash(entry) == sha256(entry_json(entry))

\* entry.dict(by_alias=True)
entry_dict(entry) ==
    [artifact_id |-> entry.artifact_id,
     type        |-> entry.entry_type,
     author      |-> entry.author,
     created_at  |-> entry.created_at,
     notes       |-> entry.notes]

\* ------------------------------------------------------- RegistryEnvelope

\* sorted(value, key=lambda entry: entry.artifact_id) on a list of references
\* into heap: ascending by id, entries of equal id kept in their given order
RECURSIVE sorted_by_artifact_id(_, _)
sorted_by_artifact_id(heap, refs) ==
    IF refs = <<>> THEN <<>>
    ELSE LET n    == Len(refs)
             x    == refs[n]
             rest == sorted_by_artifact_id(heap, SubSeq(refs, 1, n - 1))
             p    == Cardinality({i \in 1..Len(rest) :
                        StrLE(heap[rest[i]].artifact_id, heap[x].artifact_id)})
         IN  SubSeq(rest, 1, p) \o <<x>> \o SubSeq(rest, p + 1, Len(rest))

\* the validator returning the list as given
ensure_sorted_entries_unsorted(heap, value) == value

\* the validator of RegistryEnvelope.entries
ensure_sorted_entries(heap, value) == sorted_by_artifact_id(heap, value)

\* RegistryEnvelope built from entry objects: the objects live in heap (a
\* reference is an index into it), entries is the validated list of references
RegistryEnvelope(objects) ==
    [capsule_id |-> "ssot.registry.v1",
     registry   |-> [name |-> "ssot", version |-> "1", maintainer |-> "council"],
     heap       |-> objects,
     entries    |-> ensure_sorted_entries(objects, [i \in 1..Len(objects) |-> i])]

\* does every entry of an envelope payload's entries array parse cleanly
RegistryEnvelope_valid(raw) ==
    \A i \in 1..Len(raw) : RegistryEntry_errors(raw[i]) = <<>>

\* RegistryEnvelope.parse_obj of a payload whose entries array is raw
RegistryEnvelope_parse(raw) ==
    RegistryEnvelope([i \in 1..Len(raw) |-> RegistryEntry(raw[i])])

\* -------------------------------------------------------------- SSOTBinder

\* {entry.artifact_id: entry for entry in entries}: a later entry of the same
\* id replaces an earlier one
entry_map_of(heap, entries) ==
    LET keys == {heap[entries[i]].artifact_id : i \in 1..Len(entries)}
        lastIndex(k) == CHOOSE i \in 1..Len(entries) :
                            /\ heap[entries[i]].artifact_id = k
                            /\ \A j \in (i + 1)..Len(entries) :
                                    heap[entries[j]].artifact_id # k
    IN  [k \in keys |-> entries[lastIndex(k)]]

\* [entry.leaf_hash() for entry in self._envelope.entries]
entry_leaf_hashes(envelope) ==
    [i \in 1..Len(envelope.entries) |-> leaf_hash(envelope.heap[envelope.entries[i]])]

\* SSOTBinder.__init__
SSOTBinder(envelope) ==
    [_envelope  |-> envelope,
     _entry_map |-> entry_map_of(envelope.heap, envelope.entries),
     _merkle    |-> MerkleTree(entry_leaf_hashes(envelope))]

\* no binder (before construction, or after a failed one)
NoBinder == SSOTBinder(RegistryEnvelope(<<>>))

\* SSOTBinder.entries: a new list of the entry objects
entries_property(self) ==
    [i \in 1..Len(self._envelope.entries) |-> self._envelope.heap[self._envelope.entries[i]]]

\* SSOTBinder.merkle_root: [ret, self]
merkle_root(self) ==
    LET call == MerkleTree_root(self._merkle)
    IN  [ret |-> call.ret, self |-> [self EXCEPT !._merkle = call.self]]

\* SSOTBinder.get_entry: the reference of the entry object, or None
get_entry(self, artifact_id) ==
    IF artifact_id \in DOMAIN self._entry_map
    THEN [found |-> TRUE, ref |-> self._entry_map[artifact_id]]
    ELSE [found |-> FALSE]

\* SSOTBinder.as_dict: [ret, self]
as_dict(self) ==
    LET env  == self._envelope
        root == merkle_root(self)
    IN  [ret  |-> [capsule_id  |-> env.capsule_id,
                   registry    |-> env.registry,
                   entries     |-> [i \in 1..Len(env.entries) |->
                                      entry_dict(env.heap[env.entries[i]])
                                        @@ [leaf_hash |-> leaf_hash(env.heap[env.entries[i]])]],
                   merkle_root |-> root.ret],
         self |-> root.self]

\* _candidate_merkle_root working on the binder's own leaf list instead of a
\* new list: the candidate's hash is appended to self._merkle.leaves
_candidate_merkle_root_on_stored_leaves(self, candidate) ==
    LET leaves == Append(self._merkle.leaves, leaf_hash(candidate))
    IN  [ret  |-> MerkleTree_root(MerkleTree(leaves)).ret,
         self |-> [self EXCEPT !._merkle = MerkleTree(leaves)]]

\* _candidate_merkle_root putting the candidate's hash first instead of last
_candidate_merkle_root_prepending(self, candidate) ==
    LET leaves == <<leaf_hash(candidate)>> \o entry_leaf_hashes(self._envelope)
    IN  [ret |-> MerkleTree_root(MerkleTree(leaves)).ret, self |-> self]

\* SSOTBinder._candidate_merkle_root: a new list of the entries' leaf hashes,
\* the candidate's appended, and the root of a new tree over it: [ret, self]
_candidate_merkle_root(self, candidate) ==
    LET leaves == Append(entry_leaf_hashes(self._envelope), leaf_hash(candidate))
        tree0  == MerkleTree(leaves)
    IN  [ret |-> MerkleTree_root(tree0).ret, self |-> self]

\* the duplicate error reported under the kind of a validator failure
duplicate_error_as_value_error ==
    [loc |-> <<"artifact_id">>, msg |-> "artifact already registered",
     type |-> "value_error"]

\* the single error of a candidate whose id is registered
duplicate_error ==
    [loc |-> <<"artifact_id">>, msg |-> "artifact already registered",
     type |-> "value_error.duplicate"]

\* validate_candidate looking the raw artifact_id up before parsing the payload
validate_candidate_duplicate_first(self, candidate_data) ==
    IF /\ "artifact_id" \in DOMAIN candidate_data
       /\ strip(candidate_data.artifact_id) \in DOMAIN self._entry_map
    THEN [ret  |-> [valid |-> FALSE, errors |-> <<duplicate_error>>], self |-> self]
    ELSE IF RegistryEntry_errors(candidate_data) # <<>>
    THEN [ret  |-> [valid |-> FALSE, errors |-> RegistryEntry_errors(candidate_data)],
          self |-> self]
    ELSE LET candidate == RegistryEntry(candidate_data)
             preview   == _candidate_merkle_root(self, candidate)
         IN  [ret  |-> [valid          |-> TRUE,
                        candidate      |-> entry_dict(candidate)
                                             @@ [leaf_hash |-> leaf_hash(candidate)],
                        merkle_preview |-> preview.ret],
              self |-> preview.self]

\* validate_candidate whose except clause does not cover the ValueError of
\* validate_entry_type: a type outside the allowed set leaves as an exception
validate_candidate_type_error_escaping(self, candidate_data) ==
    IF "type" \in DOMAIN candidate_data /\ candidate_data.type \notin allowed
    THEN [ret |-> [raised |-> "ValueError"], self |-> self]
    ELSE validate_candidate_duplicate_first(self, candidate_data)

\* SSOTBinder.validate_candidate: [ret, self]
validate_candidate(self, candidate_data) ==
    IF RegistryEntry_errors(candidate_data) # <<>>
    THEN [ret  |-> [valid |-> FALSE, errors |-> RegistryEntry_errors(candidate_data)],
          self |-> self]
    ELSE LET candidate == RegistryEntry(candidate_data)
         IN  IF candidate.artifact_id \in DOMAIN self._entry_map
             THEN [ret  |-> [valid |-> FALSE, errors |-> <<duplicate_error>>],
                   self |-> self]
             ELSE LET preview == _candidate_merkle_root(self, candidate)
                  IN  [ret  |-> [valid          |-> TRUE,
                                 candidate      |-> entry_dict(candidate)
                                                      @@ [leaf_hash |-> leaf_hash(candidate)],
                                 merkle_preview |-> preview.ret],
                       self |-> preview.self]

\* ----------------------------------------------------------------- readers

\* leaves.append(candidate.leaf_hash()) written to the binder's own leaf list,
\* as if leaves were self._merkle.leaves and not a new list
append_candidate_leaf_to_stored(self, leaves, candidate) ==
    [self   |-> [self EXCEPT !._merkle.leaves = Append(@, leaf_hash(candidate))],
     leaves |-> Append(self._merkle.leaves, leaf_hash(candidate))]

\* leaves.append(candidate.leaf_hash()) in _candidate_merkle_root: leaves is
\* the list the comprehension has just built, local to the call
append_candidate_leaf(self, leaves, candidate) ==
    [self |-> self, leaves |-> Append(leaves, leaf_hash(candidate))]

\* ------------------------------------------------ pydantic shim, validator

\* the annotated fields of the schemas of codex_validator
schema_fields(schema) ==
    CASE schema = "Credential" -> {"user", "credential"}
      [] schema = "OverrideRequest" -> {"requestor", "action", "target"}

\* the shim's ValidationError: a ValueError subclass with a docstring and
\* nothing else, so an instance has its message and no errors method
ValidationError(message) == [class |-> "ValidationError", args |-> <<message>>]

\* the shim's BaseModel.__init__(**data) for a schema without defaults and
\* validators: ValidationError when annotated fields are missing, else an
\* object with one attribute per item of data
BaseModel_init(schema, data) ==
    LET missing == {f \in schema_fields(schema) : f \notin DOMAIN data}
    IN  IF missing # {}
        THEN [raised |-> "ValidationError",
              exc    |-> ValidationError([model |-> schema, missing |-> missing])]
        ELSE [raised |-> "none", obj |-> [schema |-> schema, attrs |-> data]]

\* the shim's BaseModel.dict(): the annotated fields only
BaseModel_dict(obj) == [f \in schema_fields(obj.schema) |-> obj.attrs[f]]

\* validate_payload: the handler of the except clause calls exc.errors(), an
\* attribute lookup that raises AttributeError on an object without it
validate_payload(schema, payload) ==
    LET made == BaseModel_init(schema, payload)
    IN  IF made.raised = "none"
        THEN [raised |-> "none", ret |-> [valid |-> TRUE, data |-> BaseModel_dict(made.obj)]]
        ELSE IF "errors" \in DOMAIN made.exc
        THEN [raised |-> "none", ret |-> [valid |-> FALSE, errors |-> made.exc.errors]]
        ELSE [raised |-> "AttributeError"]

\* ------------------------------------------------------ OrchestratorCapsule

\* step in steps, for a list
InList(step, steps) == \E i \in 1..Len(steps) : steps[i] = step

\* OrchestratorCapsule.validate_sequence on a capsule whose flow_order is
\* flow_order: the FlowCheckResult; next_expected None is [some |-> FALSE]
validate_sequence(flow_order, sequence) ==
    LET stripped   == [i \in 1..Len(sequence) |-> strip(sequence[i])]
        kept       == {i \in 1..Len(sequence) : sequence[i] # <<>>}
        normalized == SelectSeq([i \in 1..Len(sequence) |->
                                    IF i \in kept THEN [keep |-> TRUE, step |-> stripped[i]]
                                    ELSE [keep |-> FALSE, step |-> <<>>]],
                                LAMBDA x : x.keep)
        steps      == [i \in 1..Len(normalized) |-> normalized[i].step]
        missing    == SelectSeq(flow_order, LAMBDA step : ~InList(step, steps))
        extras     == SelectSeq(steps, LAMBDA step : ~InList(step, flow_order))
        aligned    == SelectSeq(steps, LAMBDA step : InList(step, flow_order))
        in_order   == aligned = SubSeq(flow_order, 1,
                                       IF Len(aligned) < Len(flow_order)
                                       THEN Len(aligned) ELSE Len(flow_order))
        next_expected ==
            IF missing = <<>> /\ Len(aligned) < Len(flow_order)
            THEN [some |-> TRUE, value |-> flow_order[Len(aligned) + 1]]
            ELSE [some |-> FALSE]
    IN  [valid         |-> missing = <<>> /\ extras = <<>> /\ in_order,
         missing       |-> missing,
         extras        |-> extras,
         in_order      |-> in_order,
         normalized    |-> aligned,
         next_expected |-> next_expected]

\* ----------------------------------------------------------- CapsuleManager

\* CapsuleHook(name, callback)
CapsuleHook(name, callback) == [name |-> name, callback |-> callback]

\* CapsuleManager(hooks=..., frozen=...): both are fields of the dataclass
\* and parameters of its constructor, frozen with default False
CapsuleManager(hooks, frozen) == [hooks |-> hooks, frozen |-> frozen]

\* CapsuleManager._emit: the callbacks called, in hook order
emit(self, event) ==
    LET hit == SelectSeq(self.hooks, LAMBDA hook : hook.name = event)
    IN  [i \in 1..Len(hit) |-> hit[i].callback]

\* CapsuleManager.register_hook
capsule_register_hook(self, hook) == [self EXCEPT !.hooks = Append(@, hook)]

\* CapsuleManager.freeze: [raised, fired, self]
freeze(self) ==
    [raised |-> "none", fired |-> emit([self EXCEPT !.frozen = TRUE], "freeze"),
     self |-> [self EXCEPT !.frozen = TRUE]]

\* CapsuleManager.braid_bind
braid_bind(self) ==
    IF ~self.frozen
    THEN [raised |-> "RuntimeError", fired |-> <<>>, self |-> self]
    ELSE [raised |-> "none", fired |-> emit(self, "braid_bind"), self |-> self]

\* CapsuleManager.feedback_loop
feedback_loop(self) ==
    [raised |-> "none", fired |-> emit(self, "feedback_loop"), self |-> self]

\* a manager with the record of whether freeze() was ever called on it
Managed(self, freeze_called) == [self |-> self, freeze_called |-> freeze_called]
NoManager == Managed(CapsuleManager(<<>>, FALSE), FALSE)

\* ------------------------------------------------------------- load_binder

\* a registry file: absent, present but no JSON text, or the JSON of an
\* envelope whose entries array is entries
NoFile == [kind |-> "missing"]
MalformedFile == [kind |-> "malformed"]
JsonFile(entries) == [kind |-> "json", entries |-> entries]

\* the body of load_binder leaving out the entries that do not parse
load_binder_wrapped_skipping_invalid(f) ==
    IF f.kind = "missing" THEN [raised |-> "FileNotFoundError"]
    ELSE IF f.kind = "malformed" THEN [raised |-> "JSONDecodeError"]
    ELSE [raised |-> "none",
          ret    |-> SSOTBinder(RegistryEnvelope_parse(
                        SelectSeq(f.entries, LAMBDA d : RegistryEntry_errors(d) = <<>>)))]

\* the body of load_binder on the registry file f: path.open raises for an
\* absent file, json.load for text that is no JSON, parse_obj for an entry
\* that violates the schema; otherwise the binder of the whole envelope
load_binder_wrapped(f) ==
    IF f.kind = "missing" THEN [raised |-> "FileNotFoundError"]
    ELSE IF f.kind = "malformed" THEN [raised |-> "JSONDecodeError"]
    ELSE IF ~RegistryEnvelope_valid(f.entries) THEN [raised |-> "ValidationError"]
    ELSE [raised |-> "none", ret |-> SSOTBinder(RegistryEnvelope_parse(f.entries))]

\* the lru_cache with nothing in it
EmptyCache == [hit |-> FALSE]

\* load_binder storing its result but never looking it up: every call runs
\* the body on the file as it is now
load_binder_rerunning_body(c, f, n) ==
    LET body == load_binder_wrapped(f)
    IN  [out   |-> IF body.raised = "none" THEN body @@ [instance |-> n + 1] ELSE body,
         cache |-> IF body.raised = "none"
                   THEN [hit |-> TRUE, value |-> body.ret, instance |-> n + 1]
                   ELSE c,
         reads |-> n + 1]

\* load_binder() under @lru_cache(), called with the cache c, the file f and
\* the body having run n times: a cached binder is returned as it is; else
\* the body runs, and what it returns (not what it raises) is cached.  The
\* binder object built by the k-th run of the body is instance k.
load_binder(c, f, n) ==
    IF c.hit
    THEN [out   |-> [raised |-> "none", ret |-> c.value, instance |-> c.instance],
          cache |-> c,
          reads |-> n]
    ELSE LET body == load_binder_wrapped(f)
         IN  [out   |-> IF body.raised = "none" THEN body @@ [instance |-> n + 1] ELSE body,
              cache |-> IF body.raised = "none"
                        THEN [hit |-> TRUE, value |-> body.ret, instance |-> n + 1]
                        ELSE c,
              reads |-> n + 1]

\* ------------------------------------------------------------ MotionLedger

\* sorted(value, key=lambda frame: frame.frame) on a list of frame numbers
RECURSIVE sorted_by_frame(_)
sorted_by_frame(value) ==
    IF value = <<>> THEN <<>>
    ELSE LET n    == Len(value)
             x    == value[n]
             rest == sorted_by_frame(SubSeq(value, 1, n - 1))
             p    == Cardinality({i \in 1..Len(rest) : rest[i] <= x})
         IN  SubSeq(rest, 1, p) \o <<x>> \o SubSeq(rest, p + 1, Len(rest))

\* the validator of MotionLedger.frames
ensure_sorted_frames(value) == sorted_by_frame(value)

\* MotionLedger(fps=fps, frames=frames): a frame is its frame number
MotionLedger(fps, frames) == [fps |-> fps, frames |-> ensure_sorted_frames(frames)]

\* max(a, b)
max(a, b) == IF a >= b THEN a ELSE b

\* MotionLedger.duration_seconds: the float returned, as the quotient
\* num / den it is computed from (0.0 is 0 / 1).  The method returns at its
\* first return statement after the emptiness test: last_frame / max(fps, 1)
duration_seconds(self) ==
    IF self.frames = <<>>
    THEN [num |-> 0, den |-> 1]
    ELSE LET first_frame == self.frames[1]
             last_frame  == self.frames[Len(self.frames)]
         IN  [num |-> last_frame, den |-> max(self.fps, 1)]

\* -------------------------------------------------------------- WorldEngine
\* The engine is its capsule_registry and its artifacts. governance and
\* previz_schema are constants of the constructor; audit_log is only ever
\* appended to by log_action and read by no operation, and a capsule's
\* fossilized_at is a clock reading that enters no comparison: the three are
\* left out. Of a capsule's data the model keeps the fields that vary or that
\* an operation reads.

\* dict[key] = value
setitem(dict, key, value) ==
    [k \in DOMAIN dict \cup {key} |-> IF k = key THEN value ELSE dict[k]]

\* json.dumps(value) and json.loads(text): text that loads back to the value
json_dumps(value) == [json |-> value]
json_loads(text) == text.json

\* Capsule(capsule_id, data), digest = compute_digest() set by __post_init__
Capsule(capsule_id, data) ==
    [capsule_id |-> capsule_id, data |-> data, digest |-> [sha256 |-> json_dumps(data)]]

\* Capsule.as_dict
Capsule_as_dict(capsule) ==
    [capsule_id |-> capsule.capsule_id, digest |-> capsule.digest, data |-> capsule.data]

\* WorldEngine()
WorldEngine ==
    [capsule_registry |-> [k \in {} |-> None], artifacts |-> [k \in {} |-> None]]

\* self.capsule_registry[capsule.capsule_id] = capsule
with_capsule(self, capsule) ==
    [self EXCEPT !.capsule_registry = setitem(@, capsule.capsule_id, capsule)]

\* self.artifacts[name] = json.dumps(value)
with_artifact(self, name, value) ==
    [self EXCEPT !.artifacts = setitem(@, name, json_dumps(value))]

\* load_capsules(capsules_data)
RECURSIVE load_capsules(_, _)
load_capsules(self, capsules_data) ==
    IF capsules_data = <<>> THEN self
    ELSE load_capsules(with_capsule(self, Capsule(Head(capsules_data).capsule_id,
                                                  Head(capsules_data))),
                       Tail(capsules_data))

\* emit_lora_map
emit_lora_map(self) ==
    with_capsule(self, Capsule("boo.lora.map.v1",
                               [capsule_id |-> "boo.lora.map.v1", type |-> "LoRAMap"]))

\* the four beats of rehearse_scene
beats == <<"Entry", "Stabilize (CiCi)", "Gloh Flux", "Sol Ignition">>

min(a, b) == IF a <= b THEN a ELSE b

beat_index_cycling(frame_idx, beat_len) == frame_idx % Len(beats)

\* the beat of a frame: min(frame_idx // beat_len, len(beats) - 1)
beat_index(frame_idx, beat_len) == min(frame_idx \div beat_len, Len(beats) - 1)

\* rehearse_scene(duration_s, sample_rate_hz): one ledger line per frame;
\* int((t_rel // 3) * 3) with t_rel = frame_idx / sample_rate_hz is
\* 3 * (frame_idx // (3 * sample_rate_hz))
rehearse_scene(self, duration_s, sample_rate_hz) ==
    LET frames   == duration_s * sample_rate_hz
        beat_len == max(frames \div Len(beats), 1)
        ledger_lines ==
            [n \in 1..frames |->
                LET frame_idx  == n - 1
                IN  [frame_idx      |-> frame_idx,
                     beat           |-> beats[beat_index(frame_idx, beat_len) + 1],
                     camera_grammar |-> "glyph-orbit",
                     hud |-> [qlock_tick_s |-> 3 * (frame_idx \div (3 * sample_rate_hz))]]]
        capsule == Capsule("capsule.rehearsal.boo.v2",
                           [capsule_id     |-> "capsule.rehearsal.boo.v2",
                            sample_rate_hz |-> sample_rate_hz,
                            frames         |-> frames,
                            status         |-> "PREVIEW"])
    IN  with_capsule(with_artifact(self, "ledger.motion.v2.jsonl", ledger_lines), capsule)

\* fork_scene
fork_scene(self) ==
    with_capsule(self, Capsule("capsule.relay.scene.fork.v2",
                               [capsule_id |-> "capsule.relay.scene.fork.v2",
                                status     |-> "STAGED"]))

\* _load_motion_ledger
_load_motion_ledger(self) ==
    IF "ledger.motion.v2.jsonl" \notin DOMAIN self.artifacts THEN <<>>
    ELSE json_loads(self.artifacts["ledger.motion.v2.jsonl"])

\* _require_capsules(*capsule_ids): ValueError naming the missing ids
_require_capsules(self, capsule_ids) ==
    LET missing == SelectSeq(capsule_ids, LAMBDA id : id \notin DOMAIN self.capsule_registry)
    IN  IF missing # <<>> THEN [raised |-> "ValueError", missing |-> missing]
        ELSE [raised |-> "none", missing |-> <<>>]

\* sorted(items, key=lambda item: item[key]) and list.sort(key=...): stable
RECURSIVE sorted_by_key(_, _)
sorted_by_key(items, key) ==
    IF items = <<>> THEN <<>>
    ELSE LET n    == Len(items)
             x    == items[n]
             rest == sorted_by_key(SubSeq(items, 1, n - 1), key)
             p    == Cardinality({i \in 1..Len(rest) : rest[i][key] <= x[key]})
         IN  SubSeq(rest, 1, p) \o <<x>> \o SubSeq(rest, p + 1, Len(rest))

\* _validate_previz_invariants(shots): the loop from position i on
RECURSIVE validate_from(_, _, _)
validate_from(shots, i, prev_end) ==
    IF i > Len(shots) THEN "none"
    ELSE IF shots[i].end_frame < shots[i].start_frame THEN "ValueError"
    ELSE IF shots[i].start_frame <= prev_end THEN "ValueError"
    ELSE validate_from(shots, i + 1, shots[i].end_frame)

_validate_previz_invariants(shots) == validate_from(shots, 1, -1)

\* the keys of beat_frames, in the order setdefault inserted them
first_seen(motion_ledger) ==
    LET firsts == SelectSeq([i \in 1..Len(motion_ledger) |->
                                [beat |-> motion_ledger[i].beat,
                                 new  |-> \A j \in 1..(i - 1) :
                                              motion_ledger[j].beat # motion_ledger[i].beat]],
                            LAMBDA x : x.new)
    IN  [i \in 1..Len(firsts) |-> firsts[i].beat]

\* the rows of shot_list.csv: the header and one row of cells per shot
csv_rows(shots) ==
    <<<<"beat", "start_frame", "end_frame", "duration_frames", "qlock_anchor_s",
        "camera_grammar">>>>
    \o [i \in 1..Len(shots) |->
           <<shots[i].beat, shots[i].start_frame, shots[i].end_frame,
             shots[i].duration_frames, shots[i].qlock_anchor_s, shots[i].camera_grammar>>]

\* generate_shot_list: [raised, ret, self]
generate_shot_list(self) ==
    LET motion_ledger == _load_motion_ledger(self)
        keys == first_seen(motion_ledger)
        shots  == [i \in 1..Len(keys) |->
                     LET frames_sorted ==
                             sorted_by_key(SelectSeq(motion_ledger, LAMBDA f : f.beat = keys[i]),
                                           "frame_idx")
                         start_frame == frames_sorted[1].frame_idx
                         end_frame   == frames_sorted[Len(frames_sorted)].frame_idx
                     IN  [beat            |-> keys[i],
                          start_frame     |-> start_frame,
                          end_frame       |-> end_frame,
                          duration_frames |-> end_frame - start_frame + 1,
                          qlock_anchor_s  |-> frames_sorted[1].hud.qlock_tick_s,
                          camera_grammar  |-> frames_sorted[1].camera_grammar]]
        sorted == sorted_by_key(shots, "start_frame")
    IN  IF motion_ledger = <<>> THEN [raised |-> "ValueError", ret |-> <<>>, self |-> self]
        ELSE IF _validate_previz_invariants(sorted) # "none"
        THEN [raised |-> "ValueError", ret |-> <<>>, self |-> self]
        ELSE [raised |-> "none", ret |-> sorted,
              self |-> [self EXCEPT !.artifacts = setitem(@, "shot_list.csv", csv_rows(sorted))]]

\* the capsule registered under capsule_id, or a new one registered and
\* written to its artifact when there is none: the get / `is None` blocks
\* of render_final
existing_or(self, capsule_id, artifact, data) ==
    IF capsule_id \in DOMAIN self.capsule_registry THEN self
    ELSE with_artifact(with_capsule(self, Capsule(capsule_id, data)),
                       artifact, Capsule_as_dict(Capsule(capsule_id, data)))

\* render_final: [raised, self]
render_final(self) ==
    LET motion_ledger == _load_motion_ledger(self)
        frames_count == Len(motion_ledger)
        motion == existing_or(self, "motion.ledger.v2", "motion.ledger.v2.json",
                              [capsule_id |-> "motion.ledger.v2",
                               frames     |-> frames_count,
                               status     |-> "FOSSILIZED"])
        replay == existing_or(motion, "replay.token.v2", "replay.token.v2.json",
                              [capsule_id    |-> "replay.token.v2",
                               linked_ledger |-> "motion.ledger.v2",
                               status        |-> "ISSUED"])
        echo   == existing_or(replay, "echo.scrollstream.v2", "echo.scrollstream.v2.json",
                              [capsule_id      |-> "echo.scrollstream.v2",
                               linked_capsules |-> <<"motion.ledger.v2", "replay.token.v2">>,
                               status          |-> "SEALED"])
    IN  IF motion_ledger = <<>> THEN [raised |-> "ValueError", self |-> self]
        ELSE [raised |-> "none", self |-> echo]

\* finalize_and_bind: [raised, self]
finalize_and_bind(self) ==
    LET rendered == render_final(self)
        listed   == generate_shot_list(rendered.self)
        exports  == [motion_ledger_digest |-> listed.self.capsule_registry["motion.ledger.v2"].digest,
                     replay_token_digest  |-> listed.self.capsule_registry["replay.token.v2"].digest,
                     echo_digest          |-> listed.self.capsule_registry["echo.scrollstream.v2"].digest,
                     shot_count           |-> Len(listed.ret)]
    IN  IF rendered.raised # "none" THEN [raised |-> rendered.raised, self |-> rendered.self]
        ELSE IF listed.raised # "none" THEN [raised |-> listed.raised, self |-> listed.self]
        ELSE [raised |-> "none", self |-> with_artifact(listed.self, "exports.json", exports)]

\* the capsules emit_summary_manifest requires, in the order it names them
manifest_roots ==
    <<"motion.ledger.v2", "replay.token.v2", "echo.scrollstream.v2",
      "capsule.rehearsal.boo.v2", "boo.lora.map.v1", "capsule.relay.scene.fork.v2">>

\* the manifest capsule over the required capsules
manifest_capsule(self) ==
    Capsule("capsule.summary.manifest.v1",
            [capsule_id |-> "capsule.summary.manifest.v1",
             roots      |-> [i \in 1..Len(manifest_roots) |->
                                Capsule_as_dict(self.capsule_registry[manifest_roots[i]])]])

emit_summary_manifest_registering_first(self) ==
    LET required == _require_capsules(self, manifest_roots)
        sealed   == with_capsule(self, Capsule("capsule.summary.manifest.v1",
                                               [capsule_id |-> "capsule.summary.manifest.v1"]))
    IN  IF required.raised # "none"
        THEN [raised |-> required.raised, missing |-> required.missing, self |-> sealed]
        ELSE [raised |-> "none", missing |-> <<>>, self |-> sealed]

\* emit_summary_manifest: [raised, missing, self]
emit_summary_manifest(self) ==
    LET required == _require_capsules(self, manifest_roots)
    IN  IF required.raised # "none"
        THEN [raised |-> required.raised, missing |-> required.missing, self |-> self]
        ELSE [raised |-> "none", missing |-> <<>>,
              self |-> with_artifact(with_capsule(self, manifest_capsule(self)),
                                     "capsule.summary.manifest.v1.json",
                                     Capsule_as_dict(manifest_capsule(self)))]

NoEngine == WorldEngine

\* ----------------------------------------------------- Shard, ShardRegistry

\* the values of ShardLifecycleEvent
ShardLifecycleEvent == {"on_emit", "on_freeze", "on_restore"}

\* ShardLifecycleEvent.from_value: the event, or ValueError for another string
from_value(value) ==
    IF value \in ShardLifecycleEvent
    THEN [raised |-> "none", ret |-> value]
    ELSE [raised |-> "ValueError"]

\* Shard(shard_id, overlay_signature, ...): no hook registered yet
Shard(shard_id, overlay_signature) ==
    [shard_id |-> shard_id, overlay_signature |-> overlay_signature,
     _hooks |-> [e \in {} |-> None]]

\* Shard.register_hook: [raised, self]; None stands for a callback that is
\* not callable
register_hook(self, event, callback) ==
    IF from_value(event).raised # "none" THEN [raised |-> "ValueError", self |-> self]
    ELSE IF callback = None THEN [raised |-> "TypeError", self |-> self]
    ELSE [raised |-> "none",
          self   |-> [self EXCEPT !._hooks = (event :> callback) @@ self._hooks]]

\* Shard.validate_overlay
validate_overlay(self, incoming_signature) == incoming_signature = self.overlay_signature

\* Shard._trigger: the hook invocations it makes, each with the hook called
\* and the shard passed to it
Shard_trigger(self, event) ==
    IF event \in DOMAIN self._hooks
    THEN << [hook |-> self._hooks[event], shard |-> self.shard_id] >>
    ELSE <<>>

\* ShardRegistry()
ShardRegistry == [_shards |-> [id \in {} |-> None]]

\* ShardRegistry.register: [raised, self]
register(self, shard, allow_overwrite) ==
    IF shard.shard_id \in DOMAIN self._shards /\ ~allow_overwrite
    THEN [raised |-> "ValueError", self |-> self]
    ELSE [raised |-> "none",
          self   |-> [self EXCEPT !._shards = (shard.shard_id :> shard) @@ self._shards]]

\* ShardRegistry.deregister: self._shards.pop(shard_id, None)
deregister(self, shard_id) ==
    [self EXCEPT !._shards = [id \in DOMAIN self._shards \ {shard_id} |-> self._shards[id]]]

\* ShardRegistry.require
require(self, shard_id) ==
    IF shard_id \in DOMAIN self._shards
    THEN [raised |-> "none", ret |-> self._shards[shard_id]]
    ELSE [raised |-> "KeyError"]

\* ShardRegistry.ensure_overlay
ensure_overlay(self, shard_id, overlay_signature) ==
    IF require(self, shard_id).raised # "none" THEN [raised |-> "KeyError"]
    ELSE IF ~validate_overlay(require(self, shard_id).ret, overlay_signature)
    THEN [raised |-> "PermissionError"]
    ELSE [raised |-> "none", ret |-> shard_id]

\* trigger running the ritual before it looks at the overlay signature
trigger_before_attestation(self, shard_id, event, overlay_signature) ==
    IF from_value(event).raised # "none" THEN [raised |-> "ValueError", fired |-> <<>>]
    ELSE IF require(self, shard_id).raised # "none" THEN [raised |-> "KeyError", fired |-> <<>>]
    ELSE LET shard == require(self, shard_id).ret
         IN  [raised |-> IF overlay_signature # None /\ ~validate_overlay(shard, overlay_signature)
                         THEN "PermissionError" ELSE "none",
              fired  |-> Shard_trigger(shard, event)]

\* ShardRegistry.trigger(shard_id, event, overlay_signature=None): what it
\* raises and the hook invocations it makes
trigger(self, shard_id, event, overlay_signature) ==
    IF from_value(event).raised # "none" THEN [raised |-> "ValueError", fired |-> <<>>]
    ELSE IF require(self, shard_id).raised # "none" THEN [raised |-> "KeyError", fired |-> <<>>]
    ELSE LET shard == require(self, shard_id).ret
         IN  IF overlay_signature # None /\ ~validate_overlay(shard, overlay_signature)
             THEN [raised |-> "PermissionError", fired |-> <<>>]
             ELSE [raised |-> "none", fired |-> Shard_trigger(shard, from_value(event).ret)]

\* ShardRegistry.clear
clear(self) == ShardRegistry

\* ------------------------------------------------------------------ inputs

\* a well-formed entry payload (wire names) of an id and a type, without notes
Entry(id, type) ==
    [artifact_id |-> id, type |-> type, author |-> "author", created_at |-> ValidTimestamp]

\* a mapping without one of its keys
Drop(data, key) == [k \in DOMAIN data \ {key} |-> data[k]]

\* payloads that parse cleanly: every id as a script and as an asset, one
\* entry carrying notes, one whose id is written with surrounding blanks
CleanPayloads ==
    {Entry(id, type) : id \in Ids, type \in {"script", "asset"}}
        \cup {Entry(<<1>>, "script") @@ [notes |-> "draft"]}
        \cup {Entry(<<0, 1, 0>>, "script")}

\* payloads that fail field validation: a type outside the enum, a required
\* field absent, a created_at that is no timestamp, two problems at once
InvalidPayloads ==
    {Entry(id, "movie") : id \in Ids}
        \cup {Drop(Entry(id, "script"), "author") : id \in Ids}
        \cup {Drop(Entry(<<1>>, "script"), "artifact_id")}
        \cup {[Entry(<<1>>, "script") EXCEPT !.created_at = "yesterday"]}
        \cup {Drop(Entry(<<1>>, "movie"), "author")}

Payloads == CleanPayloads \cup InvalidPayloads

\* the entries arrays of the envelope payloads
RECURSIVE ArraysOf(_, _)
ArraysOf(S, n) ==
    IF n = 0 THEN {<<>>}
    ELSE LET shorter == ArraysOf(S, n - 1)
         IN  shorter \cup {Append(a, x) : a \in {b \in shorter : Len(b) = n - 1}, x \in S}

EntryArrays == ArraysOf(Payloads, MaxEntries)

\* the registry files of the loader: absent, malformed, and the envelopes
\* over two entries that parse and one that does not
FilePayloads == {Entry(<<1>>, "script"), Entry(<<2>>, "asset"), Entry(<<2>>, "movie")}
Files == {NoFile, MalformedFile} \cup {JsonFile(a) : a \in ArraysOf(FilePayloads, MaxEntries)}

\* what the reader threads call: validate_candidate of a payload (one of a
\* known id, one of a new id, one failing validation), as_dict, get_entry
ReaderEntries == {Entry(<<1>>, "script"), Entry(<<2>>, "asset")}
ReaderPayloads == {Entry(<<1>>, "script"), Entry(<<MaxId>>, "script"), Entry(<<1>>, "movie")}
ReaderCalls ==
    {[op |-> "validate_candidate", arg |-> p] : p \in ReaderPayloads}
        \cup {[op |-> "as_dict", arg |-> None]}
        \cup {[op |-> "get_entry", arg |-> id] : id \in Ids}
Readers == 1..NumReaders

\* the shards, signatures, events and callbacks of the registry's callers
ShardIds == {"braid:alpha", "braid:beta"}
Signatures == {"spark-attestation-01", "spark-attestation-02"}
EventValues == ShardLifecycleEvent \cup {"on_melt"}
Callbacks == {"hook_1", "hook_2"}

\* the payloads of validate_payload: every mapping from some of these keys
PayloadKeys == {"user", "credential", "requestor", "action", "target", "note"}
MappingPayloads == UNION {[K -> {"value"}] : K \in SUBSET PayloadKeys}
Schemas == {"Credential", "OverrideRequest"}

\* flow orders and submitted sequences: steps are ids, a submitted step can
\* also be empty or carry a leading blank
FlowOrders == ArraysOf(Ids, MaxFlow) \ {<<>>}
SubmittedSteps == Ids \cup {<<>>, <<0, 1>>}
Submissions == ArraysOf(SubmittedSteps, MaxFlow)

\* the hooks of a capsule manager
HookNames == {"freeze", "braid_bind", "feedback_loop"}
CapsuleHooks == {CapsuleHook(name, "callback") : name \in HookNames}

\* the lists load_capsules is given: one foundational capsule, any of the
\* ids the manifest requires
LoadableCapsules == {<<[capsule_id |-> manifest_roots[i]]>> : i \in 1..Len(manifest_roots)}

\* the ledgers: every fps and every list of frame numbers, in any order
Ledgers == {MotionLedger(fps, frames) :
                fps \in 0..MaxFps, frames \in ArraysOf(0..MaxFrame, MaxFrames)}

\* ----------------------------------------------------------------- actions

NotCalled == [called |-> FALSE]

\* the loader, the readers and the ledger before anything has happened
LoadIdle == file = NoFile /\ cache = EmptyCache /\ reads = 0
ReadersIdle == threads = <<>>
LedgerIdle == ledger = MotionLedger(1, <<>>) /\ ledger_ret = NotCalled
ShardsIdle == shard_registry = ShardRegistry
ManagerIdle == manager = NoManager
EngineIdle == engine = NoEngine

Init ==
    /\ phase = "start"
    /\ input = <<>>
    /\ binder = NoBinder
    /\ peer = NoBinder
    /\ last = [op |-> "init"]
    /\ tree = MerkleTree(<<>>)
    /\ tree_ret = NotCalled
    /\ LoadIdle
    /\ ReadersIdle
    /\ LedgerIdle
    /\ ShardsIdle
    /\ ManagerIdle
    /\ EngineIdle

\* RegistryEnvelope.parse_obj(payload) followed by SSOTBinder(envelope), as
\* load_binder does: a schema violation raises and no binder is built
Construct(raw) ==
    /\ phase = "start"
    /\ input' = raw
    /\ IF RegistryEnvelope_valid(raw)
       THEN /\ phase' = "loaded"
            /\ binder' = SSOTBinder(RegistryEnvelope_parse(raw))
            /\ last' = [op |-> "construct", raised |-> FALSE]
       ELSE /\ phase' = "failed"
            /\ binder' = binder
            /\ last' = [op |-> "construct", raised |-> TRUE]
    /\ UNCHANGED <<peer, treeVars, loadVars, threads, ledgerVars, shard_registry, manager, engine>>

ValidateCandidate(candidate_data) ==
    /\ phase = "loaded"
    /\ LET call == validate_candidate(binder, candidate_data)
       IN  /\ binder' = call.self
           /\ last' = [op |-> "validate_candidate", arg |-> candidate_data, ret |-> call.ret]
    /\ UNCHANGED <<phase, input, peer, treeVars, loadVars, threads, ledgerVars, shard_registry, manager, engine>>

GetEntry(artifact_id) ==
    /\ phase = "loaded"
    /\ last' = [op |-> "get_entry", arg |-> artifact_id, ret |-> get_entry(binder, artifact_id)]
    /\ UNCHANGED <<phase, input, binder, peer, treeVars, loadVars, threads, ledgerVars, shard_registry, manager, engine>>

AsDict ==
    /\ phase = "loaded"
    /\ LET call == as_dict(binder)
       IN  /\ binder' = call.self
           /\ last' = [op |-> "as_dict", ret |-> call.ret]
    /\ UNCHANGED <<phase, input, peer, treeVars, loadVars, threads, ledgerVars, shard_registry, manager, engine>>

EntriesProperty ==
    /\ phase = "loaded"
    /\ last' = [op |-> "entries", ret |-> entries_property(binder)]
    /\ UNCHANGED <<phase, input, binder, peer, treeVars, loadVars, threads, ledgerVars, shard_registry, manager, engine>>

MerkleRootProperty ==
    /\ phase = "loaded"
    /\ LET call == merkle_root(binder)
       IN  /\ binder' = call.self
           /\ last' = [op |-> "merkle_root", ret |-> call.ret]
    /\ UNCHANGED <<phase, input, peer, treeVars, loadVars, threads, ledgerVars, shard_registry, manager, engine>>

\* a second binder built, as Construct builds the first, from an envelope
\* whose entries array holds the same entries in the order given by order
ConstructPeer(order) ==
    /\ phase = "loaded"
    /\ peer' = SSOTBinder(RegistryEnvelope_parse([i \in 1..Len(input) |-> input[order[i]]]))
    /\ last' = [op |-> "construct_peer", order |-> order]
    /\ UNCHANGED <<phase, input, binder, treeVars, loadVars, threads, ledgerVars, shard_registry, manager, engine>>

\* the orders an array of n entries can be given in
Orders(n) == {f \in [1..n -> 1..n] : \A i, j \in 1..n : f[i] = f[j] => i = j}

\* the caller assigns to a field of the entry object get_entry returned: the
\* object is the one the binder's list and map refer to, and RegistryEntry
\* does not forbid assignment
CallerSetsAuthor(author) ==
    /\ phase = "loaded"
    /\ last.op = "get_entry"
    /\ last.ret.found
    /\ binder' = [binder EXCEPT !._envelope.heap[last.ret.ref].author = author]
    /\ last' = [op |-> "caller_sets_author", ref |-> last.ret.ref]
    /\ UNCHANGED <<phase, input, peer, treeVars, loadVars, threads, ledgerVars, shard_registry, manager, engine>>

\* the caller removes the last element of the list the entries property
\* returned: that list is a copy (list(self._envelope.entries))
CallerPopsEntriesCopy ==
    /\ phase = "loaded"
    /\ last.op = "entries"
    /\ last.ret # <<>>
    /\ last' = [op |-> "caller_pops_copy", ret |-> SubSeq(last.ret, 1, Len(last.ret) - 1)]
    /\ UNCHANGED <<phase, input, binder, peer, treeVars, loadVars, threads, ledgerVars, shard_registry, manager, engine>>

\* the caller removes the last element of envelope.entries, the envelope
\* being the object it passed to SSOTBinder(envelope), which the binder keeps
CallerPopsEnvelopeEntries ==
    /\ phase = "loaded"
    /\ binder._envelope.entries # <<>>
    /\ binder' = [binder EXCEPT !._envelope.entries =
                      SubSeq(@, 1, Len(@) - 1)]
    /\ last' = [op |-> "caller_pops_envelope"]
    /\ UNCHANGED <<phase, input, peer, treeVars, loadVars, threads, ledgerVars, shard_registry, manager, engine>>

\* tree.root() on the free-standing tree
RootCall ==
    /\ LET call == MerkleTree_root(tree)
       IN  /\ tree' = call.self
           /\ tree_ret' = [called |-> TRUE, ret |-> call.ret]
    /\ UNCHANGED <<binderVars, loadVars, threads, ledgerVars, shard_registry, manager, engine>>

\* a call of load_binder(): the first one is the module's own
\* binder = load_binder() at import
LoadBinder ==
    /\ cache.hit \/ reads < MaxReads
    /\ LET call == load_binder(cache, file, reads)
       IN  /\ cache' = call.cache
           /\ reads' = call.reads
           /\ input' = IF ~cache.hit /\ call.out.raised = "none" THEN file.entries ELSE input
           /\ last' = [op |-> "load_binder", cached |-> cache.hit, file |-> file,
                       out |-> call.out]
    /\ UNCHANGED <<phase, binder, peer, file, treeVars, threads, ledgerVars, shard_registry, manager, engine>>

\* the registry file is replaced, removed or corrupted on disk
WriteFile(f) ==
    /\ f # file
    /\ file' = f
    /\ last' = [op |-> "write_file"]
    /\ UNCHANGED <<phase, input, binder, peer, cache, reads, treeVars, threads, ledgerVars, shard_registry, manager, engine>>

\* what is left unchanged by a step of a reader thread apart from the binder
readerFrame == <<phase, input, peer, last, treeVars, loadVars, ledgerVars, shard_registry, manager, engine>>

\* thread t starts a call
ReaderCall(t, call) ==
    /\ threads[t].pc = "idle"
    /\ threads' = [threads EXCEPT ![t] =
          [pc |-> CASE call.op = "validate_candidate" -> "vc_parse"
                    [] call.op = "as_dict" -> "ad_entries"
                    [] call.op = "get_entry" -> "ge_lookup",
           op |-> call.op, arg |-> call.arg]]
    /\ UNCHANGED <<binder, readerFrame>>

\* validate_candidate: candidate = RegistryEntry.parse_obj(candidate_data),
\* or the return of the except clause
VcParse(t) ==
    /\ threads[t].pc = "vc_parse"
    /\ LET th == threads[t]
       IN  threads' = [threads EXCEPT ![t] =
              IF RegistryEntry_errors(th.arg) # <<>>
              THEN [pc |-> "done", op |-> th.op, arg |-> th.arg,
                    ret |-> [valid |-> FALSE, errors |-> RegistryEntry_errors(th.arg)]]
              ELSE [pc |-> "vc_lookup", op |-> th.op, arg |-> th.arg,
                    candidate |-> RegistryEntry(th.arg)]]
    /\ UNCHANGED <<binder, readerFrame>>

\* validate_candidate: if candidate.artifact_id in self._entry_map: return ...
VcLookup(t) ==
    /\ threads[t].pc = "vc_lookup"
    /\ LET th == threads[t]
       IN  threads' = [threads EXCEPT ![t] =
              IF th.candidate.artifact_id \in DOMAIN binder._entry_map
              THEN [pc |-> "done", op |-> th.op, arg |-> th.arg,
                    ret |-> [valid |-> FALSE, errors |-> <<duplicate_error>>]]
              ELSE [th EXCEPT !.pc = "vc_leaves"]]
    /\ UNCHANGED <<binder, readerFrame>>

\* _candidate_merkle_root: leaves = [entry.leaf_hash() for entry in ...]
VcLeaves(t) ==
    /\ threads[t].pc = "vc_leaves"
    /\ LET th == threads[t]
       IN  threads' = [threads EXCEPT ![t] =
              [pc |-> "vc_append", op |-> th.op, arg |-> th.arg,
               candidate |-> th.candidate,
               leaves |-> entry_leaf_hashes(binder._envelope)]]
    /\ UNCHANGED <<binder, readerFrame>>

\* _candidate_merkle_root: leaves.append(candidate.leaf_hash())
VcAppend(t) ==
    /\ threads[t].pc = "vc_append"
    /\ LET th   == threads[t]
           step == append_candidate_leaf(binder, th.leaves, th.candidate)
       IN  /\ binder' = step.self
           /\ threads' = [threads EXCEPT ![t] =
                 [th EXCEPT !.pc = "vc_root", !.leaves = step.leaves]]
    /\ UNCHANGED readerFrame

\* _candidate_merkle_root: tree = MerkleTree(leaves); return tree.root(), and
\* the return of validate_candidate
VcRoot(t) ==
    /\ threads[t].pc = "vc_root"
    /\ LET th == threads[t]
       IN  threads' = [threads EXCEPT ![t] =
              [pc |-> "done", op |-> th.op, arg |-> th.arg,
               ret |-> [valid          |-> TRUE,
                        candidate      |-> entry_dict(th.candidate)
                                             @@ [leaf_hash |-> leaf_hash(th.candidate)],
                        merkle_preview |-> MerkleTree_root(MerkleTree(th.leaves)).ret]]]
    /\ UNCHANGED <<binder, readerFrame>>

\* as_dict: the loop over self._envelope.entries building the listed entries
AdEntries(t) ==
    /\ threads[t].pc = "ad_entries"
    /\ LET th  == threads[t]
           env == binder._envelope
       IN  threads' = [threads EXCEPT ![t] =
              [pc |-> "ad_root", op |-> th.op, arg |-> th.arg,
               entries |-> [i \in 1..Len(env.entries) |->
                              entry_dict(env.heap[env.entries[i]])
                                @@ [leaf_hash |-> leaf_hash(env.heap[env.entries[i]])]]]]
    /\ UNCHANGED <<binder, readerFrame>>

\* as_dict: the returned mapping, self.merkle_root read from the stored tree
AdRoot(t) ==
    /\ threads[t].pc = "ad_root"
    /\ LET th   == threads[t]
           root == merkle_root(binder)
       IN  /\ binder' = root.self
           /\ threads' = [threads EXCEPT ![t] =
                 [pc |-> "done", op |-> th.op, arg |-> th.arg,
                  ret |-> [capsule_id  |-> binder._envelope.capsule_id,
                           registry    |-> binder._envelope.registry,
                           entries     |-> th.entries,
                           merkle_root |-> root.ret]]]
    /\ UNCHANGED readerFrame

\* get_entry: return self._entry_map.get(artifact_id)
GeLookup(t) ==
    /\ threads[t].pc = "ge_lookup"
    /\ LET th == threads[t]
       IN  threads' = [threads EXCEPT ![t] =
              [pc |-> "done", op |-> th.op, arg |-> th.arg,
               ret |-> get_entry(binder, th.arg)]]
    /\ UNCHANGED <<binder, readerFrame>>

\* thread t takes the result of its call and is free for the next one
ReaderReturn(t) ==
    /\ threads[t].pc = "done"
    /\ threads' = [threads EXCEPT ![t] = [pc |-> "idle"]]
    /\ UNCHANGED <<binder, readerFrame>>

\* what a step of the shard registry leaves unchanged
shardFrame == <<phase, input, binder, peer, treeVars, loadVars, threads, ledgerVars>>

\* registry.register(Shard(shard_id, overlay_signature), allow_overwrite=...)
Register(shard_id, overlay_signature, allow_overwrite) ==
    /\ LET call == register(shard_registry, Shard(shard_id, overlay_signature), allow_overwrite)
       IN  /\ shard_registry' = call.self
           /\ last' = [op |-> "register", shard_id |-> shard_id, raised |-> call.raised]
    /\ UNCHANGED <<shardFrame, manager, engine>>

\* shard.register_hook(event, callback) on a registered shard: the registry
\* holds the shard object itself
RegisterHook(shard_id, event, callback) ==
    /\ shard_id \in DOMAIN shard_registry._shards
    /\ LET call == register_hook(shard_registry._shards[shard_id], event, callback)
       IN  /\ shard_registry' = [shard_registry EXCEPT !._shards[shard_id] = call.self]
           /\ last' = [op |-> "register_hook", shard_id |-> shard_id, event |-> event,
                       raised |-> call.raised]
    /\ UNCHANGED <<shardFrame, manager, engine>>

\* registry.deregister(shard_id)
Deregister(shard_id) ==
    /\ shard_registry' = deregister(shard_registry, shard_id)
    /\ last' = [op |-> "deregister", shard_id |-> shard_id, raised |-> "none"]
    /\ UNCHANGED <<shardFrame, manager, engine>>

\* registry.ensure_overlay(shard_id, overlay_signature)
EnsureOverlay(shard_id, overlay_signature) ==
    /\ last' = [op |-> "ensure_overlay", shard_id |-> shard_id,
                overlay_signature |-> overlay_signature,
                raised |-> ensure_overlay(shard_registry, shard_id, overlay_signature).raised]
    /\ UNCHANGED <<shardFrame, shard_registry, manager, engine>>

\* registry.trigger(shard_id, event, overlay_signature=...): None is the
\* default of the keyword
Trigger(shard_id, event, overlay_signature) ==
    /\ LET call == trigger(shard_registry, shard_id, event, overlay_signature)
       IN  last' = [op |-> "trigger", shard_id |-> shard_id, event |-> event,
                    overlay_signature |-> overlay_signature,
                    raised |-> call.raised, fired |-> call.fired]
    /\ UNCHANGED <<shardFrame, shard_registry, manager, engine>>

\* registry.clear()
Clear ==
    /\ shard_registry' = clear(shard_registry)
    /\ last' = [op |-> "clear", raised |-> "none"]
    /\ UNCHANGED <<shardFrame, manager, engine>>

\* validate_payload(schema, payload), as the endpoints call it
ValidatePayload(schema, payload) ==
    /\ last' = [op |-> "validate_payload", schema |-> schema, payload |-> payload,
                out |-> validate_payload(schema, payload)]
    /\ UNCHANGED <<shardFrame, shard_registry, manager, engine>>

\* capsule.validate_sequence(sequence) on the capsule under check, whose
\* flow_order no call changes
ValidateSequence(sequence) ==
    /\ last' = [op |-> "validate_sequence", flow_order |-> last.flow_order,
                sequence |-> sequence, ret |-> validate_sequence(last.flow_order, sequence)]
    /\ UNCHANGED <<shardFrame, shard_registry, manager, engine>>

\* manager.register_hook(hook)
RegisterCapsuleHook(hook) ==
    /\ Len(manager.self.hooks) < MaxHooks
    /\ manager' = [manager EXCEPT !.self = capsule_register_hook(@, hook)]
    /\ last' = [op |-> "register_hook", raised |-> "none", fired |-> <<>>]
    /\ UNCHANGED <<shardFrame, shard_registry, engine>>

\* manager.freeze()
Freeze ==
    /\ LET call == freeze(manager.self)
       IN  /\ manager' = Managed(call.self, TRUE)
           /\ last' = [op |-> "freeze", raised |-> call.raised, fired |-> call.fired]
    /\ UNCHANGED <<shardFrame, shard_registry, engine>>

\* manager.braid_bind()
BraidBind ==
    /\ LET call == braid_bind(manager.self)
       IN  /\ manager' = [manager EXCEPT !.self = call.self]
           /\ last' = [op |-> "braid_bind", raised |-> call.raised, fired |-> call.fired]
    /\ UNCHANGED <<shardFrame, shard_registry, engine>>

\* manager.feedback_loop()
FeedbackLoop ==
    /\ LET call == feedback_loop(manager.self)
       IN  /\ manager' = [manager EXCEPT !.self = call.self]
           /\ last' = [op |-> "feedback_loop", raised |-> call.raised, fired |-> call.fired]
    /\ UNCHANGED <<shardFrame, shard_registry, engine>>

\* engine.load_capsules(capsules_data)
LoadCapsules(capsules_data) ==
    /\ engine' = load_capsules(engine, capsules_data)
    /\ last' = [op |-> "load_capsules", raised |-> "none"]
    /\ UNCHANGED <<shardFrame, shard_registry, manager>>

\* engine.emit_lora_map()
EmitLoraMap ==
    /\ engine' = emit_lora_map(engine)
    /\ last' = [op |-> "emit_lora_map", raised |-> "none"]
    /\ UNCHANGED <<shardFrame, shard_registry, manager>>

\* engine.rehearse_scene(duration_s, sample_rate_hz)
RehearseScene(duration_s, sample_rate_hz) ==
    /\ engine' = rehearse_scene(engine, duration_s, sample_rate_hz)
    /\ last' = [op |-> "rehearse_scene", raised |-> "none"]
    /\ UNCHANGED <<shardFrame, shard_registry, manager>>

\* engine.fork_scene()
ForkScene ==
    /\ engine' = fork_scene(engine)
    /\ last' = [op |-> "fork_scene", raised |-> "none"]
    /\ UNCHANGED <<shardFrame, shard_registry, manager>>

\* engine.generate_shot_list()
GenerateShotList ==
    /\ LET call == generate_shot_list(engine)
       IN  /\ engine' = call.self
           /\ last' = [op |-> "generate_shot_list", raised |-> call.raised, ret |-> call.ret]
    /\ UNCHANGED <<shardFrame, shard_registry, manager>>

\* engine.render_final()
RenderFinal ==
    /\ LET call == render_final(engine)
       IN  /\ engine' = call.self
           /\ last' = [op |-> "render_final", raised |-> call.raised]
    /\ UNCHANGED <<shardFrame, shard_registry, manager>>

\* engine.finalize_and_bind()
FinalizeAndBind ==
    /\ LET call == finalize_and_bind(engine)
       IN  /\ engine' = call.self
           /\ last' = [op |-> "finalize_and_bind", raised |-> call.raised]
    /\ UNCHANGED <<shardFrame, shard_registry, manager>>

\* engine.emit_summary_manifest()
EmitSummaryManifest ==
    /\ LET call == emit_summary_manifest(engine)
       IN  /\ engine' = call.self
           /\ last' = [op |-> "emit_summary_manifest", raised |-> call.raised,
                       missing |-> call.missing]
    /\ UNCHANGED <<shardFrame, shard_registry, manager>>

\* ledger.duration_seconds()
DurationSeconds ==
    /\ ledger_ret' = [called |-> TRUE, ret |-> duration_seconds(ledger)]
    /\ UNCHANGED <<binderVars, treeVars, loadVars, threads, ledger, shard_registry, manager, engine>>

Next ==
    \/ \E raw \in EntryArrays : Construct(raw)
    \/ \E candidate_data \in Payloads : ValidateCandidate(candidate_data)
    \/ \E artifact_id \in Ids : GetEntry(artifact_id)
    \/ AsDict
    \/ EntriesProperty
    \/ MerkleRootProperty

Spec == Init /\ [][Next]_vars

\* two binders built independently from the same entries
NextPeer ==
    \/ \E raw \in EntryArrays : Construct(raw)
    \/ \E order \in Orders(Len(input)) : ConstructPeer(order)

SpecPeer == Init /\ [][NextPeer]_vars

\* a binder and a caller that writes to the objects the binder hands out
NextCaller ==
    \/ \E raw \in EntryArrays : Construct(raw)
    \/ \E artifact_id \in Ids : GetEntry(artifact_id)
    \/ AsDict
    \/ EntriesProperty
    \/ \E author \in {"editor"} : CallerSetsAuthor(author)
    \/ CallerPopsEntriesCopy
    \/ CallerPopsEnvelopeEntries

SpecCaller == Init /\ [][NextCaller]_vars

\* the leaf hashes of the sample entries and one hash that is itself the pair
\* hash of two of them, and the trees over them
EntryLeafHashes == {leaf_hash(RegistryEntry(Entry(id, "script"))) : id \in Ids}
LeafHashes ==
    EntryLeafHashes
        \cup {_hash_pair(leaf_hash(RegistryEntry(Entry(<<1>>, "script"))),
                         leaf_hash(RegistryEntry(Entry(<<2>>, "script"))))}

InitMerkle ==
    /\ phase = "start"
    /\ input = <<>>
    /\ binder = NoBinder
    /\ peer = NoBinder
    /\ last = [op |-> "init"]
    /\ tree \in {MerkleTree(leaves) : leaves \in ArraysOf(LeafHashes, MaxLeaves)}
    /\ tree_ret = NotCalled
    /\ LoadIdle
    /\ ReadersIdle
    /\ LedgerIdle
    /\ ShardsIdle
    /\ ManagerIdle
    /\ EngineIdle

NextMerkle == RootCall

SpecMerkle == InitMerkle /\ [][NextMerkle]_vars

\* the loader and the registry file
InitLoad ==
    /\ phase = "start"
    /\ input = <<>>
    /\ binder = NoBinder
    /\ peer = NoBinder
    /\ last = [op |-> "init"]
    /\ tree = MerkleTree(<<>>)
    /\ tree_ret = NotCalled
    /\ file \in Files
    /\ cache = EmptyCache
    /\ reads = 0
    /\ ReadersIdle
    /\ LedgerIdle
    /\ ShardsIdle
    /\ ManagerIdle
    /\ EngineIdle

NextLoad ==
    \/ LoadBinder
    \/ \E f \in Files : WriteFile(f)

SpecLoad == InitLoad /\ [][NextLoad]_vars

\* reader threads on one binder, each running its call statement by statement
InitReaders ==
    /\ phase = "loaded"
    /\ input \in ArraysOf(ReaderEntries, MaxEntries)
    /\ binder = SSOTBinder(RegistryEnvelope_parse(input))
    /\ peer = NoBinder
    /\ last = [op |-> "init"]
    /\ tree = MerkleTree(<<>>)
    /\ tree_ret = NotCalled
    /\ LoadIdle
    /\ threads = [t \in Readers |-> [pc |-> "idle"]]
    /\ LedgerIdle
    /\ ShardsIdle
    /\ ManagerIdle
    /\ EngineIdle

NextReaders ==
    \E t \in Readers :
        \/ \E call \in ReaderCalls : ReaderCall(t, call)
        \/ VcParse(t)
        \/ VcLookup(t)
        \/ VcLeaves(t)
        \/ VcAppend(t)
        \/ VcRoot(t)
        \/ AdEntries(t)
        \/ AdRoot(t)
        \/ GeLookup(t)
        \/ ReaderReturn(t)

SpecReaders == InitReaders /\ [][NextReaders]_vars

\* a motion ledger
InitLedger ==
    /\ phase = "start"
    /\ input = <<>>
    /\ binder = NoBinder
    /\ peer = NoBinder
    /\ last = [op |-> "init"]
    /\ tree = MerkleTree(<<>>)
    /\ tree_ret = NotCalled
    /\ LoadIdle
    /\ ReadersIdle
    /\ ledger \in Ledgers
    /\ ledger_ret = NotCalled
    /\ ShardsIdle
    /\ ManagerIdle
    /\ EngineIdle

NextLedger == DurationSeconds

SpecLedger == InitLedger /\ [][NextLedger]_vars

\* a shard registry and its callers
NextShard ==
    \/ \E shard_id \in ShardIds, sig \in Signatures, allow_overwrite \in BOOLEAN :
          Register(shard_id, sig, allow_overwrite)
    \/ \E shard_id \in ShardIds, event \in EventValues, callback \in Callbacks \cup {None} :
          RegisterHook(shard_id, event, callback)
    \/ \E shard_id \in ShardIds : Deregister(shard_id)
    \/ \E shard_id \in ShardIds, sig \in Signatures : EnsureOverlay(shard_id, sig)
    \/ \E shard_id \in ShardIds, event \in EventValues, sig \in Signatures \cup {None} :
          Trigger(shard_id, event, sig)
    \/ Clear

SpecShard == Init /\ [][NextShard]_vars

\* the payload validator on every schema and payload
NextValidator == \E schema \in Schemas, payload \in MappingPayloads : ValidatePayload(schema, payload)

SpecValidator == Init /\ [][NextValidator]_vars

\* the sequence check of an orchestrator capsule of any flow order
InitFlow ==
    /\ phase = "start"
    /\ input = <<>>
    /\ binder = NoBinder
    /\ peer = NoBinder
    /\ \E flow_order \in FlowOrders : last = [op |-> "capsule", flow_order |-> flow_order]
    /\ tree = MerkleTree(<<>>)
    /\ tree_ret = NotCalled
    /\ LoadIdle
    /\ ReadersIdle
    /\ LedgerIdle
    /\ ShardsIdle
    /\ ManagerIdle
    /\ EngineIdle

NextFlow == \E sequence \in Submissions : ValidateSequence(sequence)

SpecFlow == InitFlow /\ [][NextFlow]_vars

\* a capsule manager, constructed with any hooks and either value of frozen
InitManager ==
    /\ phase = "start"
    /\ input = <<>>
    /\ binder = NoBinder
    /\ peer = NoBinder
    /\ last = [op |-> "init"]
    /\ tree = MerkleTree(<<>>)
    /\ tree_ret = NotCalled
    /\ LoadIdle
    /\ ReadersIdle
    /\ LedgerIdle
    /\ ShardsIdle
    /\ manager \in {Managed(CapsuleManager(hooks, frozen), FALSE) :
                        hooks \in ArraysOf(CapsuleHooks, MaxHooks), frozen \in BOOLEAN}
    /\ EngineIdle

NextManager ==
    \/ \E hook \in CapsuleHooks : RegisterCapsuleHook(hook)
    \/ Freeze
    \/ BraidBind
    \/ FeedbackLoop

SpecManager == InitManager /\ [][NextManager]_vars

\* the relay pipeline of one engine, every operation in any order, the
\* rehearsal of one second at one frame per second
NextEngine ==
    \/ \E capsules_data \in LoadableCapsules : LoadCapsules(capsules_data)
    \/ EmitLoraMap
    \/ RehearseScene(1, 1)
    \/ ForkScene
    \/ GenerateShotList
    \/ RenderFinal
    \/ FinalizeAndBind
    \/ EmitSummaryManifest

SpecEngine == Init /\ [][NextEngine]_vars

\* rehearsals of every duration and sample rate, and their shot lists
NextRehearse ==
    \/ \E duration_s \in 0..MaxDuration, sample_rate_hz \in 0..MaxRate :
           RehearseScene(duration_s, sample_rate_hz)
    \/ GenerateShotList

SpecRehearse == Init /\ [][NextRehearse]_vars

\* rehearsals and renders of one engine
NextRender ==
    \/ \E duration_s \in 0..MaxDuration, sample_rate_hz \in 1..MaxRate :
           RehearseScene(duration_s, sample_rate_hz)
    \/ RenderFinal
    \/ FinalizeAndBind

SpecRender == Init /\ [][NextRender]_vars

\* ------------------------------------------------------------------ claims

\* the artifact ids of the entries a binder lists
IdsOf(self) == {e.artifact_id : e \in {entries_property(self)[i] : i \in 1..Len(entries_property(self))}}

\* the last call was validate_candidate with a payload that parses cleanly
LastCandidateClean ==
    /\ last.op = "validate_candidate"
    /\ RegistryEntry_errors(last.arg) = <<>>

\* ... and whose id is not registered
LastCandidateAccepted ==
    /\ LastCandidateClean
    /\ strip(last.arg.artifact_id) \notin IdsOf(binder)

\* ... and whose id is registered
LastCandidateDuplicate ==
    /\ LastCandidateClean
    /\ strip(last.arg.artifact_id) \in IdsOf(binder)

\* the last call was validate_candidate with a payload that fails field
\* validation and names a registered id
LastCandidateInvalidAndDuplicate ==
    /\ last.op = "validate_candidate"
    /\ RegistryEntry_errors(last.arg) # <<>>
    /\ "artifact_id" \in DOMAIN last.arg
    /\ strip(last.arg.artifact_id) \in IdsOf(binder)

\* C1: a validate_candidate call, whatever its payload, leaves the binder's
\* entry list, id-to-entry map and Merkle leaves as they were, so as_dict()
\* returns the same entries and the same merkle_root before and after it.
C1_ValidateCandidateKeepsBinder ==
    [][last'.op = "validate_candidate" =>
          /\ binder' = binder
          /\ as_dict(binder').ret = as_dict(binder).ret]_vars

\* C1 witness: a candidate was accepted by a binder of two entries (three
\* leaves in the preview, the last one duplicated)
C1_Witness ==
    /\ LastCandidateAccepted
    /\ last.ret.valid
    /\ Len(binder._envelope.entries) = 2

\* C2: the preview of an accepted candidate is the merkle_root of the new
\* binder constructed from the binder's entries plus the candidate.
C2_PreviewIsRootAfterAdmission ==
    (last.op = "validate_candidate" /\ last.ret.valid) =>
        last.ret.merkle_preview =
            merkle_root(SSOTBinder(RegistryEnvelope(
                Append(entries_property(binder), RegistryEntry(last.arg))))).ret

\* C3: no two entries of a constructed binder share an artifact_id.
C3_ArtifactIdUnique ==
    phase = "loaded" =>
        \A i, j \in 1..Len(entries_property(binder)) :
            i # j => entries_property(binder)[i].artifact_id
                        # entries_property(binder)[j].artifact_id

\* C4: for a binder whose snapshot lists leaf hashes h1..hn and a valid,
\* unregistered candidate of leaf hash h, validate_candidate returns valid,
\* the candidate's fields with leaf_hash = h, and the root of the tree over
\* h1..hn followed by h.
C4_PreviewIsRootOfAppendedLeaves ==
    LastCandidateAccepted =>
        LET listed == as_dict(binder).ret.entries
            hs     == [i \in 1..Len(listed) |-> listed[i].leaf_hash]
            h      == leaf_hash(RegistryEntry(last.arg))
        IN  /\ last.ret.valid
            /\ last.ret.candidate.leaf_hash = h
            /\ last.ret.candidate.artifact_id = strip(last.arg.artifact_id)
            /\ last.ret.candidate.type = last.arg.type
            /\ last.ret.merkle_preview = MerkleTree_root(MerkleTree(Append(hs, h))).ret

\* C4 witness: the example of the specification, ids "a" and "b" registered
\* and candidate "c" accepted
C4_Witness ==
    /\ LastCandidateAccepted
    /\ IdsOf(binder) = {<<1>>, <<2>>}
    /\ last.arg.artifact_id = <<3>>
    /\ last.ret.valid

\* the kinds of error field validation reports
FieldErrorKinds ==
    UNION {{RegistryEntry_errors(data)[i].type : i \in 1..Len(RegistryEntry_errors(data))} :
                data \in Payloads}

\* C5: a well-formed candidate whose artifact_id is registered gets valid =
\* False with exactly one error, of the kind value_error.duplicate, which is
\* no kind of field-validation error, and neither candidate nor preview.
C5_DuplicateIsSingleDistinctError ==
    LastCandidateDuplicate =>
        /\ last.ret.valid = FALSE
        /\ DOMAIN last.ret = {"valid", "errors"}
        /\ Len(last.ret.errors) = 1
        /\ last.ret.errors[1].type = "value_error.duplicate"
        /\ last.ret.errors[1].type \notin FieldErrorKinds

\* C5 witness: a well-formed candidate with a registered id was submitted
C5_Witness ==
    /\ LastCandidateDuplicate
    /\ last.arg = Entry(<<2>>, "asset")
    /\ ~last.ret.valid

\* C6: a candidate that fails field validation and names a registered id
\* gets the field-level errors and never the duplicate error.
C6_FieldErrorsBeforeDuplicate ==
    LastCandidateInvalidAndDuplicate =>
        /\ last.ret.valid = FALSE
        /\ last.ret.errors = RegistryEntry_errors(last.arg)
        /\ \A i \in 1..Len(last.ret.errors) :
              /\ last.ret.errors[i].type # "value_error.duplicate"
              /\ last.ret.errors[i].type \in FieldErrorKinds
              /\ last.ret.errors[i].loc[1] \in {"type", "author", "created_at"}

\* C6 witness: a candidate of type "movie" with a registered id was submitted
C6_Witness ==
    /\ LastCandidateInvalidAndDuplicate
    /\ last.arg.type = "movie"
    /\ ~last.ret.valid

\* C7: whatever the order of the input array, the binder's entries are in
\* ascending artifact_id order and hold the input's entries, and the Merkle
\* leaf at position i is the leaf hash of the i-th entry in that order.
C7_EntriesAndLeavesInIdOrder ==
    phase = "loaded" =>
        LET es == entries_property(binder)
        IN  /\ Len(es) = Len(input)
            /\ \A i, j \in 1..Len(es) :
                  i < j => /\ StrLE(es[i].artifact_id, es[j].artifact_id)
                           /\ (es[i].artifact_id = es[j].artifact_id
                                  \/ ~StrLE(es[j].artifact_id, es[i].artifact_id))
            /\ \A k \in 1..Len(input) :
                  Cardinality({i \in 1..Len(es) : es[i] = RegistryEntry(input[k])})
                    = Cardinality({i \in 1..Len(input) : RegistryEntry(input[i]) = RegistryEntry(input[k])})
            /\ Len(binder._merkle.leaves) = Len(es)
            /\ \A i \in 1..Len(es) : binder._merkle.leaves[i] = leaf_hash(es[i])

\* C7 witness: a binder built from an input array in descending id order
C7_Witness ==
    /\ phase = "loaded"
    /\ Len(input) = 2
    /\ input[1].artifact_id = <<2>>
    /\ input[2].artifact_id = <<1>>

\* C8: two binders built from envelopes holding the same entries, in any two
\* orders of the input array, have the same merkle_root and the same as_dict().
C8_SameEntriesSameRoot ==
    last.op = "construct_peer" =>
        /\ merkle_root(peer).ret = merkle_root(binder).ret
        /\ as_dict(peer).ret = as_dict(binder).ret

\* what get_entry shows of an id: the entry object's content, or absence
Lookup(self, artifact_id) ==
    IF get_entry(self, artifact_id).found
    THEN [found |-> TRUE, entry |-> self._envelope.heap[get_entry(self, artifact_id).ref]]
    ELSE [found |-> FALSE]

\* C9: once the binder is constructed, no step (a call of the binder, or the
\* caller writing to an object the binder handed out or was built from)
\* changes what as_dict(), get_entry or merkle_root return.
C9_FrozenSnapshot ==
    [][phase = "loaded" =>
          /\ as_dict(binder').ret = as_dict(binder).ret
          /\ merkle_root(binder').ret = merkle_root(binder).ret
          /\ \A id \in Ids : Lookup(binder', id) = Lookup(binder, id)]_vars

\* the reference construction of the root, written out level by level for
\* each number of leaves: H is the digest of left followed by right
RefH(left, right) == << [sha |-> left \o right] >>

RefRoot(l) ==
    LET H12 == RefH(l[1], l[2])
        H33 == RefH(l[3], l[3])
        H34 == RefH(l[3], l[4])
        H55 == RefH(l[5], l[5])
        H56 == RefH(l[5], l[6])
        H77 == RefH(l[7], l[7])
        H78 == RefH(l[7], l[8])
    IN  CASE Len(l) = 2 -> H12
          [] Len(l) = 3 -> RefH(H12, H33)
          [] Len(l) = 4 -> RefH(H12, H34)
          [] Len(l) = 5 -> RefH(RefH(H12, H34), RefH(H55, H55))
          [] Len(l) = 6 -> RefH(RefH(H12, H34), RefH(H56, H56))
          [] Len(l) = 7 -> RefH(RefH(H12, H34), RefH(H56, H77))
          [] Len(l) = 8 -> RefH(RefH(H12, H34), RefH(H56, H78))

\* C10: for two or more leaves root() is the reference construction: adjacent
\* nodes paired left to right as H(left, right), the last node of an odd
\* level paired with itself, at every level; root([A,B,C]) = H(H(A,B),H(C,C)),
\* and with 5 or 6 leaves the third node of the second level pairs with itself.
C10_RootIsReferenceConstruction ==
    (tree_ret.called /\ Len(tree.leaves) >= 2 /\ Len(tree.leaves) <= 8) =>
        tree_ret.ret = RefRoot(tree.leaves)

\* C10 witness: root() was called on five leaves and returned the root whose
\* second level pairs its third node, H(l5, l5), with itself
C10_Witness ==
    /\ tree_ret.called
    /\ Len(tree.leaves) = 5
    /\ tree.leaves[5] # tree.leaves[4]
    /\ tree_ret.ret = RefH(RefH(RefH(tree.leaves[1], tree.leaves[2]),
                                RefH(tree.leaves[3], tree.leaves[4])),
                           RefH(RefH(tree.leaves[5], tree.leaves[5]),
                                RefH(tree.leaves[5], tree.leaves[5])))

\* C11: root() combines nothing on fewer than two leaves: with no leaf it
\* returns the empty string, with one leaf A it returns A, not H(A, A).
C11_NoCombinationBelowTwoLeaves ==
    tree_ret.called =>
        /\ Len(tree.leaves) = 0 => tree_ret.ret = <<>>
        /\ Len(tree.leaves) = 1 =>
              /\ tree_ret.ret = tree.leaves[1]
              /\ tree_ret.ret # RefH(tree.leaves[1], tree.leaves[1])

\* C11 witness: root() was called on a tree of exactly one leaf
C11_Witness ==
    /\ tree_ret.called
    /\ Len(tree.leaves) = 1
    /\ tree_ret.ret \in LeafHashes

\* are the leaves of a list pairwise different
PairwiseDistinct(l) == \A i, j \in 1..Len(l) : i # j => l[i] # l[j]

\* a leaf list in another order
Rearranged(l, order) == [i \in 1..Len(l) |-> l[order[i]]]

\* C12: for pairwise different leaf hashes, every rearrangement of the leaf
\* list into a different order has a different root; in particular the root
\* of [A,B,C] is not the root of [C,B,A].
C12_RootIsOrderSensitive ==
    (tree_ret.called /\ PairwiseDistinct(tree.leaves)) =>
        \A order \in Orders(Len(tree.leaves)) :
            Rearranged(tree.leaves, order) # tree.leaves =>
                MerkleTree_root(MerkleTree(Rearranged(tree.leaves, order))).ret
                    # tree_ret.ret

\* C12 witness: root() was called on three pairwise different leaves, whose
\* reversal [C,B,A] has another root
C12_Witness ==
    /\ tree_ret.called
    /\ Len(tree.leaves) = 3
    /\ PairwiseDistinct(tree.leaves)
    /\ MerkleTree_root(MerkleTree(<<tree.leaves[3], tree.leaves[2], tree.leaves[1]>>)).ret
          # tree_ret.ret

\* the notes an entry can carry
NotesValues == {None, "draft", "final"}

\* an entry payload with its notes replaced
WithNotes(data, notes) == [notes |-> notes] @@ data

\* C13: the leaf hash does not depend on notes: replacing only the notes of
\* any entry of the binder's envelope gives the same leaf hash for that entry
\* and the same merkle_root for the binder built from the changed envelope.
C13_NotesOutsideHash ==
    phase = "loaded" =>
        \A i \in 1..Len(input) : \A notes \in NotesValues :
            /\ leaf_hash(RegistryEntry(WithNotes(input[i], notes)))
                  = leaf_hash(RegistryEntry(input[i]))
            /\ merkle_root(SSOTBinder(RegistryEnvelope_parse(
                   [input EXCEPT ![i] = WithNotes(input[i], notes)]))).ret
                  = merkle_root(binder).ret

\* C13 witness: a binder with an entry that carries notes has answered
\* merkle_root
C13_Witness ==
    /\ phase = "loaded"
    /\ last.op = "merkle_root"
    /\ \E i \in 1..Len(input) : "notes" \in DOMAIN input[i] /\ input[i].notes = "draft"

\* the fields of a candidate payload that fail validation: the required
\* fields it lacks, a type outside the allowed set, a created_at that is no
\* timestamp
Offending(data) ==
    {f \in {"artifact_id", "type", "author", "created_at"} : f \notin DOMAIN data}
        \cup {f \in {"type"} \cap DOMAIN data :
                data[f] \notin {"script", "storyboard", "asset", "clip", "checkpoint"}}
        \cup {f \in {"created_at"} \cap DOMAIN data : data[f] # ValidTimestamp}

C15_GetEntryAgreesWithEntries ==
    (phase = "loaded" /\ last.op = "get_entry") =>
        /\ \A i \in 1..Len(binder._envelope.entries) :
              binder._envelope.heap[binder._envelope.entries[i]].artifact_id = last.arg
                  => last.ret = [found |-> TRUE, ref |-> binder._envelope.entries[i]]
        /\ last.arg \notin IdsOf(binder) => last.ret = [found |-> FALSE]

\* the leaf hash of an entry as as_dict lists it, from the listed fields
ListedLeafHash(listed) ==
    << [sha |-> << [k |-> "artifact_id", v |-> listed.artifact_id],
                   [k |-> "author",      v |-> listed.author],
                   [k |-> "created_at",  v |-> listed.created_at.isoformat],
                   [k |-> "type",        v |-> listed.type] >>] >>

\* C19: an as_dict() snapshot lists every entry of the binder with the leaf
\* hash of the listed fields, and its merkle_root is the root of the tree
\* over the listed leaf hashes in listed order.
C19_SnapshotSelfConsistent ==
    last.op = "as_dict" =>
        LET listed == last.ret.entries
        IN  /\ Len(listed) = Len(input)
            /\ \A i \in 1..Len(listed) : listed[i].leaf_hash = ListedLeafHash(listed[i])
            /\ last.ret.merkle_root
                  = MerkleTree_root(MerkleTree([i \in 1..Len(listed) |-> listed[i].leaf_hash])).ret

\* does a registry file fail to give a binder: it is absent, it is no JSON,
\* or one of its entries violates the schema
FileBad(f) ==
    \/ f.kind # "json"
    \/ \E i \in 1..Len(f.entries) : Offending(f.entries[i]) # {}

\* C16: a load_binder() call that runs its body on an absent file, a file
\* that is no JSON or a file with a schema-violating entry raises, returns
\* no binder and caches none; a cached binder is the binder of the whole
\* envelope of a file all of whose entries are valid.
C16_LoadFailsHard ==
    /\ (last.op = "load_binder" /\ ~last.cached /\ FileBad(last.file)) =>
          /\ last.out.raised # "none"
          /\ DOMAIN last.out = {"raised"}
          /\ ~cache.hit
    /\ cache.hit =>
          /\ \A i \in 1..Len(input) : Offending(input[i]) = {}
          /\ Len(cache.value._envelope.entries) = Len(input)
          /\ cache.value = SSOTBinder(RegistryEnvelope_parse(input))

\* C16 witness: load_binder ran on a file of two entries, one of them of
\* type "movie", and raised
C16_Witness ==
    /\ last.op = "load_binder"
    /\ ~last.cached
    /\ last.file.kind = "json"
    /\ Len(last.file.entries) = 2
    /\ \E i \in 1..2 : last.file.entries[i].type = "movie"
    /\ \E i \in 1..2 : last.file.entries[i].type = "script"
    /\ last.out.raised = "ValidationError"

\* C17: once a load_binder() call has succeeded, every later call returns
\* that same binder instance, does not run the body again (the file is not
\* read, nothing is validated) and leaves the cache as it is, whatever has
\* happened to the file since.
C17_LoadedOncePerProcess ==
    [][(cache.hit /\ last'.op = "load_binder") =>
          /\ last'.out.raised = "none"
          /\ last'.out.instance = cache.instance
          /\ last'.out.ret = cache.value
          /\ last'.out.ret = SSOTBinder(RegistryEnvelope_parse(input))
          /\ reads' = reads
          /\ cache' = cache
          /\ input' = input]_vars

\* C17 witness: load_binder was answered from the cache after the file it
\* was loaded from had been removed
C17_Witness ==
    /\ last.op = "load_binder"
    /\ last.cached
    /\ last.file = NoFile
    /\ last.out.raised = "none"
    /\ Len(input) = 2

\* what a call returns when it runs alone on the binder as constructed
Alone(call) ==
    LET built == SSOTBinder(RegistryEnvelope_parse(input))
    IN  CASE call.op = "validate_candidate" -> validate_candidate(built, call.arg).ret
          [] call.op = "as_dict" -> as_dict(built).ret
          [] call.op = "get_entry" -> get_entry(built, call.arg)

\* C18: with any interleaving of the statements of concurrent get_entry,
\* as_dict and validate_candidate calls, the binder stays what construction
\* made it (stored leaves, entries and map are not written) and every call
\* returns what it returns when run alone.
C18_ReadersDoNotInterfere ==
    /\ binder = SSOTBinder(RegistryEnvelope_parse(input))
    /\ \A t \in DOMAIN threads :
          threads[t].pc = "done" => threads[t].ret = Alone(threads[t])

\* C18 witness: one thread got a valid preview from validate_candidate while
\* another thread is in the middle of as_dict on a binder of two entries
C18_Witness ==
    /\ Len(input) = 2
    /\ \E t, u \in DOMAIN threads :
          /\ threads[t].pc = "done"
          /\ threads[t].op = "validate_candidate"
          /\ threads[t].ret.valid
          /\ threads[u].pc = "ad_root"

\* C20: duration_seconds() is 0 for a ledger without frames and else
\* (last frame - first frame) / max(fps, 1), the frames being in ascending
\* order of frame number.
C20_DurationCountsFromFirstFrame ==
    ledger_ret.called =>
        /\ \A i, j \in 1..Len(ledger.frames) : i <= j => ledger.frames[i] <= ledger.frames[j]
        /\ IF ledger.frames = <<>>
           THEN ledger_ret.ret.num = 0
           ELSE ledger_ret.ret.num * max(ledger.fps, 1)
                   = (ledger.frames[Len(ledger.frames)] - ledger.frames[1]) * ledger_ret.ret.den

\* C28: two different lists of entry leaf hashes, of equal or different
\* length, never have the same root: no other list of entry leaf hashes has
\* the root that root() returned for the tree's list.
C28_RootIdentifiesLeafList ==
    (tree_ret.called /\ \A i \in 1..Len(tree.leaves) : tree.leaves[i] \in EntryLeafHashes) =>
        \A other \in ArraysOf(EntryLeafHashes, MaxLeaves) :
            other # tree.leaves =>
                MerkleTree_root(MerkleTree(other)).ret # tree_ret.ret

\* C29: a root() call leaves the tree's leaves list as it was, returns the
\* root of that list, and returns what the call before it returned.
C29_RootLeavesLeavesAlone ==
    [][tree_ret'.called =>
          /\ tree'.leaves = tree.leaves
          /\ tree_ret'.ret = MerkleTree_root(MerkleTree(tree.leaves)).ret
          /\ tree_ret.called => tree_ret'.ret = tree_ret.ret]_vars

\* C29 witness: root() was called on a tree of five leaves, whose first and
\* second level are both odd, and the tree still holds those five leaves
C29_Witness ==
    /\ tree_ret.called
    /\ Len(tree.leaves) = 5
    /\ tree_ret.ret = RefRoot(tree.leaves)


\* C21: a hook fired through ShardRegistry.trigger only for a caller whose
\* overlay signature equals the shard's overlay_signature.
C21_AttestationBeforeRitual ==
    (last.op = "trigger" /\ last.fired # <<>>) =>
        last.overlay_signature = shard_registry._shards[last.shard_id].overlay_signature

\* C22: trigger on a registered shard with a signature that differs from the
\* shard's raises PermissionError and calls no hook; with the shard's
\* signature it calls the hook registered for the event once, with the shard,
\* and no other hook.
C22_TriggerChecksSignature ==
    (/\ last.op = "trigger"
     /\ last.shard_id \in DOMAIN shard_registry._shards
     /\ last.event \in ShardLifecycleEvent
     /\ last.overlay_signature \in Signatures) =>
        LET shard == shard_registry._shards[last.shard_id]
        IN  IF last.overlay_signature # shard.overlay_signature
            THEN last.raised = "PermissionError" /\ last.fired = <<>>
            ELSE /\ last.raised = "none"
                 /\ last.fired = IF last.event \in DOMAIN shard._hooks
                                 THEN << [hook |-> shard._hooks[last.event],
                                          shard |-> last.shard_id] >>
                                 ELSE <<>>

\* C22 witness: trigger was refused for on_restore on a shard that has a
\* hook for on_restore and another hook for on_emit
C22_Witness ==
    /\ last.op = "trigger"
    /\ last.event = "on_restore"
    /\ last.raised = "PermissionError"
    /\ last.shard_id \in DOMAIN shard_registry._shards
    /\ {"on_restore", "on_emit"} \subseteq DOMAIN shard_registry._shards[last.shard_id]._hooks
    /\ shard_registry._shards[last.shard_id]._hooks["on_restore"]
          # shard_registry._shards[last.shard_id]._hooks["on_emit"]


\* C23: validate_payload returns for every mapping payload: {valid: True,
\* data: the schema's fields} when every required field is present,
\* {valid: False, errors: ...} when one is missing; it raises nothing.
C23_OutcomeIsData ==
    last.op = "validate_payload" =>
        /\ last.out.raised = "none"
        /\ IF schema_fields(last.schema) \subseteq DOMAIN last.payload
           THEN last.out.ret = [valid |-> TRUE,
                                data  |-> [f \in schema_fields(last.schema) |-> last.payload[f]]]
           ELSE /\ last.out.ret.valid = FALSE
                /\ "errors" \in DOMAIN last.out.ret

\* C24: braid_bind on a manager on which freeze() was never called raises
\* RuntimeError and fires no hook, so a braid_bind hook fires only after a
\* freeze() call; and no step takes frozen from true back to false.
C24_FrozenBeforeBraidBind ==
    /\ [](last.op = "braid_bind" =>
            /\ ~manager.freeze_called => (last.raised = "RuntimeError" /\ last.fired = <<>>)
            /\ last.fired # <<>> => manager.freeze_called)
    /\ [][manager.self.frozen => manager'.self.frozen]_vars

\* C30: for a submitted sequence that is exactly the first k steps of
\* flow_order, k less than its length, validate_sequence gives valid False,
\* in_order True, no extras and next_expected = flow_order[k].
C30_NextStepOfIncompleteRun ==
    (/\ last.op = "validate_sequence"
     /\ \E k \in 0..(Len(last.flow_order) - 1) :
            last.sequence = SubSeq(last.flow_order, 1, k)) =>
        /\ last.ret.valid = FALSE
        /\ last.ret.in_order
        /\ last.ret.extras = <<>>
        /\ last.ret.next_expected
              = [some |-> TRUE, value |-> last.flow_order[Len(last.sequence) + 1]]


\* C25: emit_summary_manifest registers the manifest only when all six
\* required capsules are registered; otherwise it raises ValueError naming
\* exactly the missing ones and leaves capsule_registry and artifacts as
\* they were.
C25_ManifestNeedsAllSix ==
    [][last'.op = "emit_summary_manifest" =>
          LET missing == SelectSeq(manifest_roots,
                                   LAMBDA id : id \notin DOMAIN engine.capsule_registry)
          IN  IF missing # <<>>
              THEN /\ last'.raised = "ValueError"
                   /\ last'.missing = missing
                   /\ engine'.capsule_registry = engine.capsule_registry
                   /\ engine'.artifacts = engine.artifacts
              ELSE /\ last'.raised = "none"
                   /\ "capsule.summary.manifest.v1" \in DOMAIN engine'.capsule_registry]_vars

C25_Witness ==
    /\ last.op = "emit_summary_manifest"
    /\ last.raised = "ValueError"
    /\ Len(last.missing) = 2
    /\ "motion.ledger.v2" \in DOMAIN engine.capsule_registry

\* the sum of duration_frames over the first n shots
RECURSIVE total_duration(_, _)
total_duration(shots, n) ==
    IF n = 0 THEN 0 ELSE total_duration(shots, n - 1) + shots[n].duration_frames

\* C26: for a rehearsal ledger of frames >= 1, generate_shot_list raises
\* nothing and returns at most one shot per beat, sorted by start_frame,
\* each with start <= end and start after the previous end, covering
\* 0..frames-1 without gap, the duration_frames adding up to frames.
C26_ShotsTileTheRehearsal ==
    (last.op = "generate_shot_list" /\ Len(_load_motion_ledger(engine)) >= 1) =>
        LET shots  == last.ret
            frames == Len(_load_motion_ledger(engine))
        IN  /\ last.raised = "none"
            /\ Len(shots) >= 1
            /\ \A i, j \in 1..Len(shots) : shots[i].beat = shots[j].beat => i = j
            /\ \A i \in 1..Len(shots) : \E b \in 1..Len(beats) : shots[i].beat = beats[b]
            /\ \A i \in 1..Len(shots) : shots[i].start_frame <= shots[i].end_frame
            /\ \A i \in 1..(Len(shots) - 1) :
                   /\ shots[i].start_frame <= shots[i + 1].start_frame
                   /\ shots[i + 1].start_frame > shots[i].end_frame
                   /\ shots[i + 1].start_frame = shots[i].end_frame + 1
            /\ shots[1].start_frame = 0
            /\ shots[Len(shots)].end_frame = frames - 1
            /\ total_duration(shots, Len(shots)) = frames

C26_Witness ==
    /\ last.op = "generate_shot_list"
    /\ last.raised = "none"
    /\ Len(last.ret) = 4
    /\ Len(_load_motion_ledger(engine)) > 4

\* C27: after a successful render_final, the motion.ledger.v2 capsule records
\* the number of frames of the current rehearsal ledger, in its data and in
\* its digest.
C27_MotionCapsuleCountsTheLedger ==
    (last.op = "render_final" /\ last.raised = "none") =>
        LET motion_capsule == engine.capsule_registry["motion.ledger.v2"]
            frames_count   == Len(_load_motion_ledger(engine))
        IN  /\ motion_capsule.data.frames = frames_count
            /\ motion_capsule.digest
                  = Capsule("motion.ledger.v2",
                            [motion_capsule.data EXCEPT !.frames = frames_count]).digest

====
